---- MODULE Spec2Model ----
(***************************************************************************)
(* Recording-processing pipeline of mali-edu-360 (backend).                *)
(*                                                                         *)
(* RecordingsService (src/backend/src/recordings/recordings.controller.ts, *)
(* first class body, lines 63-1247), DriveService, ZoomSyncService.        *)
(*                                                                         *)
(* The specifications share the variables:                                 *)
(*   Spec         the pipeline: webhook processing, manual retry and       *)
(*                historical sync, over the database, the shared drive,    *)
(*                the forum and the guards;                                *)
(*   SpecWebhook  webhook deliveries only;                                 *)
(*   SpecSem      createSemaphore with its queue of waiters, step by step; *)
(*   SpecLock     withFileLock with its promise map, step by step;         *)
(*   SpecCrash    webhook deliveries with restarts of the process;         *)
(*   SpecFlags    one manual retry over stored recordings, by its flags;   *)
(*   SpecResolve  webhook deliveries for a meeting that has no row;        *)
(*   SpecDownload the download of one recording file with its retries;     *)
(*   SpecUpload   the resumable upload of one file, chunk by chunk, and    *)
(*                SpecUploadLive, the same under weak fairness;            *)
(*   SpecRetries  withRetries and withRobustRetries around a failing call; *)
(*   SpecBackoff  the delays before a retry, as functions of the attempt;  *)
(*   SpecForum    the selection of the forum of a course;                  *)
(*   SpecResolver the resolution of a course from a meeting topic.         *)
(* A step is what one task runs between two awaits. In Spec a task that    *)
(* finds the semaphore full or its path locked waits until it is free.     *)
(***************************************************************************)
EXTENDS Integers, Sequences, FiniteSets, TLC

(* ---------------------------------------------------------------------- *)
(* Bounds of the model                                                      *)
(* ---------------------------------------------------------------------- *)
NumTasks == 2            \* requests (webhook deliveries, manual retries, syncs)
MaxRetriesUpload == 2    \* MAX_RETRIES_UPLOAD of the environment
NumSemClients == 5       \* callers of uploadSemaphore.run in SpecSem
NumLockClients == 4      \* callers of withFileLock in SpecLock
NumJobs == 2             \* runs of the wakeup job that may overlap

(* ---------------------------------------------------------------------- *)
(* Program constants                                                        *)
(* ---------------------------------------------------------------------- *)
SemMax == 3
DefaultCourse == 99      \* DEFAULT_COURSE_ID_MOODLE of a deployment that sets it
SizeTolerance == 1024
NoOwner == 0
NoSize == -1             \* sizeBytes undefined
NoMd5 == "none"          \* md5Checksum undefined
LocalMd5 == "md5-local"  \* md5File(localPath)
OtherMd5 == "md5-other"

Tasks == 1..NumTasks
SemClients == 1..NumSemClients
LockClients == 1..NumLockClients
Jobs == 1..NumJobs
ZoomMeetingIds == {"m1", "m2"}
LockPaths == {"p1", "p2"}

(* ---------------------------------------------------------------------- *)
(* The provider's recordings (payload.object.recording_files and            *)
(* ZoomRecordingsService.getRecordingById)                                  *)
(* ---------------------------------------------------------------------- *)
File(id, ft, st, url, rt, sz) ==
  [id |-> id, file_type |-> ft, status |-> st, download_url |-> url,
   recording_type |-> rt, file_size |-> sz]

NoFile == File("", "", "", FALSE, "", 0)

ZoomFiles(zm) ==
  IF zm = "m1"
    THEN << File("r1", "MP4", "completed", TRUE, "shared_screen_with_speaker_view", 2097152) >>
    ELSE << File("r2", "MP4", "completed", TRUE, "gallery_view", 3145728),
            File("r3", "MP4", "completed", TRUE, "shared_screen_with_speaker_view", 2097152) >>

AudioOnlyFiles == << File("a1", "M4A", "completed", TRUE, "audio_only", 4096) >>

PayloadKinds == {"mp4", "audio", "empty"}

\* payloads with the MP4 files, with and without object.topic
ResolveKinds == {"mp4", "notopic"}

PayloadFiles(zm, pk) ==
  IF pk \in ResolveKinds THEN ZoomFiles(zm) ELSE IF pk = "audio" THEN AudioOnlyFiles ELSE <<>>

\* line 105: object?.topic is a string
HasTopic(pk) == pk # "notopic"

\* the course the topic of the meeting resolves to when Moodle finds it
TopicCourse(zm) == IF zm = "m1" THEN 13 ELSE 14

RecIds == {"r1", "r2", "r3"}

\* files.find(p): the first of the elements that satisfy p (hits: their indices),
\* NoFile for undefined
FindFirst(files, hits) ==
  IF hits = {} THEN NoFile
  ELSE files[CHOOSE i \in hits : \A j \in hits : i <= j]

IsMp4Completed(f) == f.file_type = "MP4" /\ f.download_url /\ f.status = "completed"
IsMp4WithUrl(f) == f.file_type = "MP4" /\ f.download_url

\* processRecordingCompleted, lines 142-144
SelectWebhookMp4(files) ==
  LET completed == {i \in 1..Len(files) : IsMp4Completed(files[i])}
      withUrl == {i \in 1..Len(files) : IsMp4WithUrl(files[i])}
  IN IF FindFirst(files, completed) # NoFile
       THEN FindFirst(files, completed)
       ELSE FindFirst(files, withUrl)

PreferOrder == << "shared_screen_with_speaker_view", "active_speaker", "speaker_view", "gallery_view" >>

\* preferOrder.indexOf(type), with preferOrder.length for -1 (0-based as in the code)
TypeWeight(rt) ==
  IF \E i \in 1..Len(PreferOrder) : PreferOrder[i] = rt
    THEN (CHOOSE i \in 1..Len(PreferOrder) : PreferOrder[i] = rt) - 1
    ELSE Len(PreferOrder)

\* the comparator of the sort: a before b
SortsBefore(a, b) ==
  \/ TypeWeight(a.recording_type) < TypeWeight(b.recording_type)
  \/ /\ TypeWeight(a.recording_type) = TypeWeight(b.recording_type)
     /\ a.file_size > b.file_size

\* executeFullMode, lines 755-764: filter, stable sort, first element
SelectFullMp4(files) ==
  LET cand == {i \in 1..Len(files) : files[i].file_type = "MP4" /\ files[i].status = "completed"}
  IN IF cand = {} THEN NoFile
     ELSE files[CHOOSE i \in cand :
                  \A j \in cand \ {i} :
                    \/ SortsBefore(files[i], files[j])
                    \/ (~SortsBefore(files[j], files[i]) /\ i < j)]

WhPath(t) == "wh" \o ToString(t)           \* <topic>_<timestamp>_<recordingId>.mp4 of one call
FullPath(zm, r) == zm \o "_" \o r \o ".mp4"   \* <zoomMeetingId>_<mp4File.id>.mp4

AllPaths ==
  LockPaths \cup {WhPath(t) : t \in Tasks}
            \cup {FullPath(zm, r) : zm \in ZoomMeetingIds, r \in RecIds}

(* ---------------------------------------------------------------------- *)
(* Rows and values                                                          *)
(* ---------------------------------------------------------------------- *)
MeetingRow(id, zm, course, status) ==
  [id |-> id, zoomMeetingId |-> zm, courseIdMoodle |-> course, status |-> status]

NoMeeting == MeetingRow(0, "", 0, "none")

RecRow(id, mid, zr, url) ==
  [id |-> id, meetingId |-> mid, zoomRecordingId |-> zr, driveUrl |-> url,
   retryCount |-> 0, driveWakeupAttempts |-> 0]

NoRec == RecRow(0, 0, "", 0)

\* the value uploadFile returns; created tells whether a file exists on Drive afterwards
UploadRes(created, md5, size) == [created |-> created, md5Checksum |-> md5, sizeBytes |-> size]

NoUpload == UploadRes(FALSE, NoMd5, NoSize)

UploadOutcomes(localSize) ==
  {UploadRes(FALSE, NoMd5, NoSize)} \cup
  {UploadRes(TRUE, m, s) : m \in {LocalMd5, OtherMd5, NoMd5},
                           s \in {NoSize, localSize + SizeTolerance, localSize + SizeTolerance + 1}}

Abs(n) == IF n < 0 THEN -n ELSE n

\* a number used as a condition: undefined and 0 are false
Truthy(n) == n # NoSize /\ n # 0

\* lines 218-228 and 814-824: the three checks that throw
UploadVerified(res, localMd5, localSize) ==
  /\ ~(res.md5Checksum # NoMd5 /\ res.md5Checksum # localMd5)
  /\ res.md5Checksum # NoMd5
  /\ ~(Truthy(res.sizeBytes) /\ Abs(res.sizeBytes - localSize) > SizeTolerance)

VARIABLES
  meetings,          \* table meetings, in insertion order; id is the index
  recordings,        \* table recordings, in insertion order; id is the index
  licenses,          \* ids of the meetings that occupy a ZoomLicense (currentMeetingId)
  drive,             \* files on the shared drive; the link of a file is its index
  posts,             \* forum discussions created, per recording id in the subject
  inFlightMeetings,  \* RecordingsService.inFlightMeetings
  retryGuard,        \* keys of RecordingsService.retryGuard
  fileLocks,         \* RecordingsService.fileLocks: path -> owner of the promise, NoOwner if absent
  active,            \* createSemaphore: let active
  queue,             \* createSemaphore: const queue (resolvers, by waiting client)
  pc,                \* position of each request task
  op,                \* the request each task serves
  loc,               \* the local variables of each task
  fx,                \* what the current request of each task has done so far
  firstDone,         \* per meeting: driveUrl returned by the first webhook run that ended done
  semPc,             \* SpecSem: position of each client of uploadSemaphore.run
  lockPc,            \* SpecLock: position of each caller of withFileLock
  lockPath,          \* SpecLock: filePath argument of each caller
  lockAwait,         \* SpecLock: the promise (by owner) a caller awaits in the while loop
  lockWokenBy,       \* SpecLock: the promise (by owner) whose resolution last woke the caller
  http,              \* ZoomWebhookController.handleWebhook: request and response of each task
  wk,                \* SchedulerService.wakeupPreviews: position and locals of each run
  dl,                \* withRobustRetries('download'): the local file and the locals of the attempt
  zoom,              \* ZoomService: accessToken (by issue number) and whether it is still valid
  up,                \* DriveService.uploadFile: the locals of the chunk loop and the last PUT
  rr,                \* withRobustRetries: its locals, the calls made and the sleeps taken
  fn                 \* the pure functions under test: their arguments and their result

dbVars == <<meetings, recordings, licenses>>
taskVars == <<pc, op, loc, fx, firstDone>>
mainVars == <<dbVars, drive, posts, inFlightMeetings, retryGuard, taskVars>>
semOnly == <<queue, semPc>>
lockOnly == <<lockPc, lockPath, lockAwait, lockWokenBy>>
fnVars == <<up, rr, fn>>
dlVars == <<dl, zoom, fnVars>>
ctlVars == <<http, wk, dlVars>>
vars == <<mainVars, fileLocks, active, semOnly, lockOnly, ctlVars>>

(* ---------------------------------------------------------------------- *)
(* Repository queries                                                       *)
(* ---------------------------------------------------------------------- *)
RowsFor(zr) == {i \in 1..Len(recordings) : recordings[i].zoomRecordingId = zr}

\* findOne: the first of the rows that match (hits: their indices)
FirstRow(tbl, hits, none) ==
  IF hits = {} THEN none
  ELSE tbl[CHOOSE i \in hits : \A j \in hits : i <= j]

\* meetingRepo.findOne({ where: { zoomMeetingId } })
MeetingByZoomId(zm) ==
  FirstRow(meetings, {i \in 1..Len(meetings) : meetings[i].zoomMeetingId = zm}, NoMeeting)

\* meetingRepo.findOne({ where: { id } })
MeetingById(id) ==
  IF id \in 1..Len(meetings) THEN meetings[id] ELSE NoMeeting

\* recRepo.findOne({ where: { zoomRecordingId } })
RecByZoomRecordingId(zr) ==
  FirstRow(recordings, RowsFor(zr), NoRec)

\* recRepo.find({ where: { meetingId } })
RecsOfMeeting(mid) ==
  LET P(r) == r.meetingId = mid IN SelectSeq(recordings, P)

\* DriveService.findFileByZoomRecordingId: files?.[0] of the listing, 0 for null
DriveFileByTag(zr) ==
  IF \E i \in 1..Len(drive) : drive[i].zoomRecordingId = zr
    THEN CHOOSE i \in 1..Len(drive) :
           drive[i].zoomRecordingId = zr /\ \A j \in 1..(i-1) : drive[j].zoomRecordingId # zr
    ELSE 0

ArtifactsFor(zr) == {i \in 1..Len(drive) : drive[i].zoomRecordingId = zr}

(* ---------------------------------------------------------------------- *)
(* Requests and locals                                                      *)
(* ---------------------------------------------------------------------- *)
Dto(sel, val, republish, forceRedownload, forceRepost, dryRun, override, limit) ==
  [sel |-> sel, val |-> val, republish |-> republish, forceRedownload |-> forceRedownload,
   forceRepost |-> forceRepost, dryRun |-> dryRun, overrideCourseIdMoodle |-> override,
   limit |-> limit]

NoDto == Dto("", "", FALSE, FALSE, FALSE, FALSE, 0, 0)

Op(kind, zm, pk, dto) == [kind |-> kind, zm |-> zm, payload |-> pk, dto |-> dto]

NoOp == Op("none", "", "", NoDto)

Target(zr, rec, meeting, mid, zm, course, hasTopic) ==
  [zoomRecordingId |-> zr, recording |-> rec, meeting |-> meeting, meetingId |-> mid,
   zoomMeetingId |-> zm, courseIdMoodle |-> course, hasTopic |-> hasTopic]

NoTarget == Target("", NoRec, NoMeeting, 0, "", 0, FALSE)

Ret(status, url) == [status |-> status, driveUrl |-> url]

NoRet == Ret("none", 0)

\* RetryResult: mode, status, reason and the recording it is about
RetryResult(mode, status, reason, zr) ==
  [mode |-> mode, status |-> status, reason |-> reason, zoomRecordingId |-> zr]

NoResult == RetryResult("", "", "", "")

NoFx ==
  [downloads |-> 0, uploads |-> 0, posts |-> 0, recInserts |-> 0,
   meetingUpdates |-> 0, releases |-> 0]

\* a call of resolveExternalMeetingFromTopic: the topic was given, the course the
\* strategies found (0: none), the default course of the environment (0: not set)
Resolve(hasTopic, found, default) ==
  [ran |-> TRUE, hasTopic |-> hasTopic, found |-> found, default |-> default]

NoResolve == [ran |-> FALSE, hasTopic |-> FALSE, found |-> 0, default |-> 0]

LocInit ==
  [meeting |-> NoMeeting, zr |-> "", attempt |-> 0, upload |-> NoUpload, link |-> 0,
   localSize |-> 0, course |-> 0, path |-> "", key |-> "",
   targets |-> <<>>, idx |-> 0, tgt |-> NoTarget, results |-> <<>>,
   res |-> NoResult, ret |-> NoRet, replayOf |-> 0, afterCompleted |-> FALSE,
   resolve |-> NoResolve]

(* ---------------------------------------------------------------------- *)
(* Initial state: the meeting m1 was created by the scheduling path with a  *)
(* license; m2 was created outside (LTI) and has no row.                    *)
(* ---------------------------------------------------------------------- *)
MainInit ==
  /\ meetings = << MeetingRow(1, "m1", 13, "scheduled") >>
  /\ recordings = <<>>
  /\ licenses = {1}
  /\ drive = <<>>
  /\ posts = [r \in RecIds |-> 0]
  /\ inFlightMeetings = {}
  /\ retryGuard = {}
  /\ pc = [t \in Tasks |-> "idle"]
  /\ op = [t \in Tasks |-> NoOp]
  /\ loc = [t \in Tasks |-> LocInit]
  /\ fx = [t \in Tasks |-> NoFx]
  /\ firstDone = [zm \in ZoomMeetingIds |-> 0]

GuardInit ==
  /\ active = 0
  /\ queue = <<>>
  /\ semPc = [c \in SemClients |-> "idle"]
  /\ fileLocks = [p \in AllPaths |-> NoOwner]
  /\ lockPc = [c \in LockClients |-> "idle"]
  /\ lockPath = [c \in LockClients |-> "p1"]
  /\ lockAwait = [c \in LockClients |-> NoOwner]
  /\ lockWokenBy = [c \in LockClients |-> NoOwner]

\* the webhook request a task serves and its answer; state is none, awaiting or answered
NoReq == [secret |-> "", bypass |-> FALSE, timestamp |-> "", signature |-> <<>>, body |-> <<>>]

NoAnswer == [code |-> 0, status |-> "", plainToken |-> "", encryptedToken |-> <<>>]

HttpInit == [req |-> NoReq, state |-> "none", answer |-> NoAnswer]

\* a run of the wakeup job: the rows its query returned and the index of its loop
JobInit == [pc |-> "idle", recs |-> <<>>, idx |-> 0]

\* no write to the local file yet
NoWrite == [flag |-> "", status |-> 0, range |-> 0, before |-> 0]

\* no download under way
DlOff ==
  [pc |-> "d_off", attempt |-> 0, hasToken |-> FALSE, expected |-> 0, file |-> <<>>,
   startByte |-> 0, flags |-> "w", reqs |-> <<>>, refreshes |-> 0, html |-> FALSE,
   lastWrite |-> NoWrite, restarted |-> FALSE, rejected416 |-> FALSE]

\* ZoomService after construction: accessToken = null
ZoomInit == [gen |-> 0, valid |-> FALSE]

ReqInit ==
  /\ http = [t \in Tasks |-> HttpInit]
  /\ wk = [j \in Jobs |-> JobInit]

\* no answer of the upload endpoint yet
NoRes == [status |-> 0, range |-> "none", k |-> 0, id |-> FALSE]

\* no read stream opened, no PUT sent
NoStream == [start |-> 0, end |-> 0, consumed |-> TRUE]

NoPut == [offset |-> 0, end |-> 0, length |-> 0, sent |-> 0]

\* no upload under way
UpOff ==
  [pc |-> "u_off", total |-> 0, offset |-> 0, end |-> 0, noRange308Count |-> 0, i |-> 0,
   res |-> NoRes, stream |-> NoStream, put |-> NoPut]

\* no function applied
FnOff == [name |-> "", arg |-> <<>>, out |-> <<>>]

\* no call of withRobustRetries under way
RrOff ==
  [pc |-> "r_off", label |-> "", attempt |-> 0, calls |-> <<>>, delays |-> <<>>,
   lastErr |-> 0, returned |-> 0, thrown |-> 0]

FnIdle == up = UpOff /\ rr = RrOff /\ fn = FnOff

CtlInit == ReqInit /\ dl = DlOff /\ zoom = ZoomInit /\ FnIdle

Init == MainInit /\ GuardInit /\ CtlInit

(* ====================================================================== *)
(* createSemaphore (recordings.controller.ts 1220-1246)                     *)
(* ====================================================================== *)
Max0(a) == IF a < 0 THEN 0 ELSE a

\* acquire(): if (active < max) { active += 1; return } else queue.push(resolve)
SemAcquire(c) ==
  /\ semPc[c] = "idle"
  /\ IF active < SemMax
       THEN /\ active' = active + 1
            /\ semPc' = [semPc EXCEPT ![c] = "running"]
            /\ queue' = queue
       ELSE /\ queue' = Append(queue, c)
            /\ semPc' = [semPc EXCEPT ![c] = "queued"]
            /\ active' = active
  /\ UNCHANGED <<mainVars, ctlVars, fileLocks, lockOnly>>

\* continuation of `await new Promise(resolve => queue.push(resolve))`: active += 1
SemResume(c) ==
  /\ semPc[c] = "woken"
  /\ active' = active + 1
  /\ semPc' = [semPc EXCEPT ![c] = "running"]
  /\ UNCHANGED <<queue, mainVars, ctlVars, fileLocks, lockOnly>>

\* fn() settles (resolved or rejected); finally release():
\* active = Math.max(0, active - 1); next = queue.shift(); if (next) next()
SemRelease(c) ==
  /\ semPc[c] = "running"
  /\ active' = Max0(active - 1)
  /\ IF queue # <<>>
       THEN /\ queue' = Tail(queue)
            /\ semPc' = [semPc EXCEPT ![c] = "done", ![Head(queue)] = "woken"]
       ELSE /\ queue' = queue
            /\ semPc' = [semPc EXCEPT ![c] = "done"]
  /\ UNCHANGED <<mainVars, ctlVars, fileLocks, lockOnly>>

SemRunning == {c \in SemClients : semPc[c] = "running"}

(* ====================================================================== *)
(* withFileLock (recordings.controller.ts 1199-1218)                        *)
(* ====================================================================== *)
\* while (this.fileLocks.has(filePath)) await this.fileLocks.get(filePath);
\* then, with no await in between, this.fileLocks.set(filePath, lockPromise); fn()
LockEnter(c, p) ==
  IF fileLocks[p] # NoOwner
    THEN /\ lockPc' = [lockPc EXCEPT ![c] = "waiting"]
         /\ lockAwait' = [lockAwait EXCEPT ![c] = fileLocks[p]]
         /\ fileLocks' = fileLocks
    ELSE /\ lockPc' = [lockPc EXCEPT ![c] = "in_fn"]
         /\ lockAwait' = [lockAwait EXCEPT ![c] = NoOwner]
         /\ fileLocks' = [fileLocks EXCEPT ![p] = c]

\* the variant that tests the map once (`if` in place of `while`)
LockReenterNoRecheck(c, p) ==
  /\ lockPc' = [lockPc EXCEPT ![c] = "in_fn"]
  /\ lockAwait' = [lockAwait EXCEPT ![c] = NoOwner]
  /\ fileLocks' = [fileLocks EXCEPT ![p] = c]

\* the loop test after the awaited promise resolved
LockReenter(c, p) == LockEnter(c, p)

LockCall(c, p) ==
  /\ lockPc[c] = "idle"
  /\ lockPath' = [lockPath EXCEPT ![c] = p]
  /\ LockEnter(c, p)
  /\ UNCHANGED <<lockWokenBy, mainVars, ctlVars, active, semOnly>>

LockResume(c) ==
  /\ lockPc[c] = "woken"
  /\ LockReenter(c, lockPath[c])
  /\ UNCHANGED <<lockPath, lockWokenBy, mainVars, ctlVars, active, semOnly>>

\* fn() settles; finally { releaseLock(); this.fileLocks.delete(filePath) }
LockRelease(c) ==
  /\ lockPc[c] = "in_fn"
  /\ fileLocks' = [fileLocks EXCEPT ![lockPath[c]] = NoOwner]
  /\ lockPc' = [d \in LockClients |->
        IF d = c THEN "done"
        ELSE IF lockPc[d] = "waiting" /\ lockAwait[d] = c THEN "woken"
        ELSE lockPc[d]]
  /\ lockWokenBy' = [d \in LockClients |->
        IF d # c /\ lockPc[d] = "waiting" /\ lockAwait[d] = c THEN c
        ELSE lockWokenBy[d]]
  /\ UNCHANGED <<lockPath, lockAwait, mainVars, ctlVars, active, semOnly>>

InFn(p) == {c \in LockClients : lockPc[c] = "in_fn" /\ lockPath[c] = p}

(* ====================================================================== *)
(* processRecordingCompleted (recordings.controller.ts 103-290)             *)
(* ====================================================================== *)
SetLoc(t, l) == [loc EXCEPT ![t] = l]
SetPc(t, p) == [pc EXCEPT ![t] = p]
Bump(t, field) == [fx EXCEPT ![t] = [@ EXCEPT ![field] = @ + 1]]

\* line 118: this.inFlightMeetings.has(zoomMeetingId)
InFlightHasNever(zm) == FALSE
InFlightHas(zm) == zm \in inFlightMeetings

\* lines 284-289: the finally block, entered with every outcome of the try block
InFlightAfterLeak(zm, status) ==
  IF status = "error" THEN inFlightMeetings ELSE inFlightMeetings \ {zm}
InFlightAfter(zm, status) == inFlightMeetings \ {zm}

\* withFileLock's finally: this.fileLocks.delete(filePath)
LocksAfterKeepOnError(path, status) ==
  IF status \in {"error", "failed"} THEN fileLocks ELSE [fileLocks EXCEPT ![path] = NoOwner]
LocksAfter(path, status) == [fileLocks EXCEPT ![path] = NoOwner]

\* uploadSemaphore.run's finally: release()
ActiveAfter == Max0(active - 1)

\* the call returns or throws: finally releases the meeting id; a held path lock was
\* released by withFileLock's finally before
WExit(t, l, status, url) ==
  /\ pc' = SetPc(t, "done")
  /\ loc' = SetLoc(t, [LocInit EXCEPT !.ret = Ret(status, url), !.replayOf = l.replayOf,
                                      !.afterCompleted = l.afterCompleted,
                                      !.resolve = l.resolve,
                                      !.zr = l.zr, !.upload = l.upload])
  /\ inFlightMeetings' = InFlightAfter(op[t].zm, status)
  /\ fileLocks' = IF fileLocks[WhPath(t)] = t THEN LocksAfter(WhPath(t), status) ELSE fileLocks
  /\ firstDone' = IF status = "done" /\ firstDone[op[t].zm] = 0
                    THEN [firstDone EXCEPT ![op[t].zm] = url] ELSE firstDone

\* requests are numbered in the order they arrive; each task serves one
Arrives(t) == pc[t] = "idle" /\ (IF t = 1 THEN TRUE ELSE pc[t - 1] # "idle")

\* lines 103-123, up to the first await
ProcessRecordingCompleted(t, zm, pk) ==
  /\ Arrives(t)
  /\ op' = [op EXCEPT ![t] = Op("webhook", zm, pk, NoDto)]
  /\ fx' = [fx EXCEPT ![t] = NoFx]
  /\ IF Len(PayloadFiles(zm, pk)) = 0
       THEN /\ pc' = SetPc(t, "done")
            /\ loc' = SetLoc(t, [LocInit EXCEPT !.ret = Ret("ignored", 0)])
            /\ UNCHANGED inFlightMeetings
       ELSE IF InFlightHas(zm)
       THEN /\ pc' = SetPc(t, "done")
            /\ loc' = SetLoc(t, [LocInit EXCEPT !.ret = Ret("in-flight", 0)])
            /\ UNCHANGED inFlightMeetings
       ELSE /\ pc' = SetPc(t, "w_findMeeting")
            /\ loc' = SetLoc(t, [LocInit EXCEPT
                         !.replayOf = IF pk = "mp4" THEN firstDone[zm] ELSE 0,
                         !.afterCompleted = MeetingByZoomId(zm).status = "completed"])
            /\ inFlightMeetings' = inFlightMeetings \cup {zm}
  /\ UNCHANGED <<dbVars, drive, posts, retryGuard, firstDone, fileLocks, active, semOnly, lockOnly, wk, dlVars>>

\* a delivery handed to the service directly
StartWebhook(t, zm, pk) ==
  /\ ProcessRecordingCompleted(t, zm, pk)
  /\ UNCHANGED http

\* lines 142-151: the MP4 of the payload, then on to the idempotency checks
WSelectMp4(t, l) ==
  LET mp4 == SelectWebhookMp4(PayloadFiles(op[t].zm, op[t].payload)) IN
  IF mp4 = NoFile
    THEN WExit(t, l, "ignored", 0)
    ELSE /\ pc' = SetPc(t, "w_idemDb")
         /\ loc' = SetLoc(t, [l EXCEPT !.zr = mp4.id, !.localSize = mp4.file_size])
         /\ UNCHANGED <<inFlightMeetings, fileLocks, firstDone>>

\* line 127: meetingRepo.findOne
WFindMeeting(t) ==
  /\ pc[t] = "w_findMeeting"
  /\ LET m == MeetingByZoomId(op[t].zm) IN
       IF m = NoMeeting
         THEN /\ pc' = SetPc(t, "w_resolve")
              /\ UNCHANGED <<loc, inFlightMeetings, fileLocks, firstDone>>
         ELSE WSelectMp4(t, [loc[t] EXCEPT !.meeting = m])
  /\ UNCHANGED <<dbVars, drive, posts, retryGuard, op, fx, active, semOnly, lockOnly, ctlVars>>

\* resolveExternalMeetingFromTopic, lines 296-380: course 0 when no strategy finds one
\* and no default is configured; otherwise the Meeting row is saved
NewMeeting(zm, course, status) == MeetingRow(Len(meetings) + 1, zm, course, status)

\* lines 300 and 359-368 with the default course never used
ResolvedCourseNoDefault(hasTopic, found, default) ==
  IF ~hasTopic THEN 0 ELSE found

\* lines 300 and 359-368: null without a topic; the course the strategies found, else
\* the default course when it is set, else null (0)
ResolvedCourse(hasTopic, found, default) ==
  IF ~hasTopic THEN 0
  ELSE IF found # 0 THEN found
  ELSE default

\* lines 128-139 with resolveExternalMeetingFromTopic, in a deployment whose default
\* course is one of defaults
WResolveWith(t, defaults) ==
  /\ pc[t] = "w_resolve"
  /\ \E found \in (IF HasTopic(op[t].payload) THEN {0, TopicCourse(op[t].zm)} ELSE {0}),
        default \in defaults :
       LET course == ResolvedCourse(HasTopic(op[t].payload), found, default)
           l == [loc[t] EXCEPT !.resolve = Resolve(HasTopic(op[t].payload), found, default)]
       IN IF course = 0
            THEN /\ WExit(t, l, "ignored", 0)
                 /\ UNCHANGED meetings
            ELSE /\ meetings' = Append(meetings, NewMeeting(op[t].zm, course, "scheduled"))
                 /\ WSelectMp4(t, [l EXCEPT !.meeting = NewMeeting(op[t].zm, course, "scheduled")])
  /\ UNCHANGED <<recordings, licenses, drive, posts, retryGuard, op, fx, active, semOnly, lockOnly, ctlVars>>

\* a deployment without DEFAULT_COURSE_ID_MOODLE
WResolve(t) == WResolveWith(t, {0})

\* a deployment with or without DEFAULT_COURSE_ID_MOODLE
WResolveDefault(t) == WResolveWith(t, {0, DefaultCourse})

\* lines 154-160: recRepo.findOne; an existing row short-circuits to update/release
WIdemDb(t) ==
  /\ pc[t] = "w_idemDb"
  /\ LET existing == RecByZoomRecordingId(loc[t].zr) IN
       IF existing # NoRec
         THEN /\ pc' = SetPc(t, "w_update")
              /\ loc' = SetLoc(t, [loc[t] EXCEPT !.link = existing.driveUrl])
         ELSE /\ pc' = SetPc(t, "w_idemDrive")
              /\ UNCHANGED loc
  /\ UNCHANGED <<dbVars, drive, posts, inFlightMeetings, retryGuard, op, fx, firstDone,
                 fileLocks, active, semOnly, lockOnly, ctlVars>>

\* lines 161-177: findFileByZoomRecordingId; a file with the tag short-circuits to the
\* save; otherwise withFileLock(localPath) is entered (the path is this call's own)
WIdemDrive(t) ==
  /\ pc[t] = "w_idemDrive"
  /\ LET d == DriveFileByTag(loc[t].zr) IN
       IF d # 0
         THEN /\ pc' = SetPc(t, "w_persist")
              /\ loc' = SetLoc(t, [loc[t] EXCEPT !.link = d])
              /\ UNCHANGED fileLocks
         ELSE /\ fileLocks[WhPath(t)] = NoOwner
              /\ fileLocks' = [fileLocks EXCEPT ![WhPath(t)] = t]
              /\ pc' = SetPc(t, "w_download")
              /\ loc' = SetLoc(t, [loc[t] EXCEPT !.path = WhPath(t)])
  /\ UNCHANGED <<dbVars, drive, posts, inFlightMeetings, retryGuard, op, fx, firstDone,
                 active, semOnly, lockOnly, ctlVars>>

\* lines 178-209: withRobustRetries('download') and the Drive folders; either the file
\* is on disk and valid, or the attempts are exhausted (or a folder call throws)
WDownload(t) ==
  /\ pc[t] = "w_download"
  /\ fx' = Bump(t, "downloads")
  /\ \E ok \in BOOLEAN :
       IF ok
         THEN /\ pc' = SetPc(t, "w_acquire")
              /\ loc' = SetLoc(t, [loc[t] EXCEPT !.attempt = 1])
              /\ UNCHANGED <<inFlightMeetings, fileLocks, firstDone>>
         ELSE WExit(t, loc[t], "error", 0)
  /\ UNCHANGED <<dbVars, drive, posts, retryGuard, op, active, semOnly, lockOnly, ctlVars>>

\* line 212: uploadSemaphore.run -> acquire(); a full semaphore makes the caller wait
WAcquire(t) ==
  /\ pc[t] = "w_acquire"
  /\ active < SemMax
  /\ active' = active + 1
  /\ pc' = SetPc(t, "w_uploading")
  /\ UNCHANGED <<dbVars, drive, posts, inFlightMeetings, retryGuard, op, loc, fx, firstDone,
                 fileLocks, semOnly, lockOnly, ctlVars>>

\* lines 211-230: uploadFile settles, the slot is released, the result is verified;
\* a failed attempt is retried until MAX_RETRIES_UPLOAD
WUploadDone(t) ==
  /\ pc[t] = "w_uploading"
  /\ fx' = Bump(t, "uploads")
  /\ \E res \in UploadOutcomes(loc[t].localSize) :
       /\ active' = ActiveAfter
       /\ drive' = IF res.created
                     THEN Append(drive, [zoomRecordingId |-> loc[t].zr, by |-> "webhook"])
                     ELSE drive
       /\ IF res.created /\ UploadVerified(res, LocalMd5, loc[t].localSize)
            THEN /\ pc' = SetPc(t, "w_post")
                 /\ loc' = SetLoc(t, [loc[t] EXCEPT !.upload = res, !.link = Len(drive) + 1])
                 /\ UNCHANGED <<inFlightMeetings, fileLocks, firstDone>>
            ELSE IF loc[t].attempt >= MaxRetriesUpload
            THEN WExit(t, loc[t], "error", 0)
            ELSE /\ pc' = SetPc(t, "w_acquire")
                 /\ loc' = SetLoc(t, [loc[t] EXCEPT !.attempt = @ + 1])
                 /\ UNCHANGED <<inFlightMeetings, fileLocks, firstDone>>
  /\ UNCHANGED <<dbVars, posts, retryGuard, op, semOnly, lockOnly, ctlVars>>

\* lines 235-264: post-upload probe and preview wait (best effort), forum id, discussion
WPost(t) ==
  /\ pc[t] = "w_post"
  /\ \E ok \in BOOLEAN :
       IF ok
         THEN /\ posts' = [posts EXCEPT ![loc[t].zr] = @ + 1]
              /\ fx' = Bump(t, "posts")
              /\ pc' = SetPc(t, "w_persist")
              /\ UNCHANGED <<loc, inFlightMeetings, fileLocks, firstDone>>
         ELSE /\ WExit(t, loc[t], "error", 0)
              /\ UNCHANGED <<posts, fx>>
  /\ UNCHANGED <<dbVars, drive, retryGuard, op, active, semOnly, lockOnly, ctlVars>>

\* lines 164-165 and 267-272: recRepo.save of a new row
WPersist(t) ==
  /\ pc[t] = "w_persist"
  /\ recordings' = Append(recordings,
        RecRow(Len(recordings) + 1, loc[t].meeting.id, loc[t].zr, loc[t].link))
  /\ fx' = Bump(t, "recInserts")
  /\ pc' = SetPc(t, "w_update")
  /\ UNCHANGED <<meetings, licenses, drive, posts, inFlightMeetings, retryGuard, op, loc,
                 firstDone, fileLocks, active, semOnly, lockOnly, ctlVars>>

\* lines 157, 166, 275: meetingRepo.update(id, { status: 'completed' })
WUpdate(t) ==
  /\ pc[t] = "w_update"
  /\ meetings' = [meetings EXCEPT ![loc[t].meeting.id] = [@ EXCEPT !.status = "completed"]]
  /\ fx' = Bump(t, "meetingUpdates")
  /\ pc' = SetPc(t, "w_release")
  /\ UNCHANGED <<recordings, licenses, drive, posts, inFlightMeetings, retryGuard, op, loc,
                 firstDone, fileLocks, active, semOnly, lockOnly, ctlVars>>

\* lines 158-159, 167-168, 276-282: releaseLicense, then return done
WRelease(t) ==
  /\ pc[t] = "w_release"
  /\ licenses' = licenses \ {loc[t].meeting.id}
  /\ fx' = Bump(t, "releases")
  /\ WExit(t, loc[t], "done", loc[t].link)
  /\ UNCHANGED <<meetings, recordings, drive, posts, retryGuard, op,
                 active, semOnly, lockOnly, ctlVars>>

Webhook(t) ==
  \/ \E zm \in ZoomMeetingIds, pk \in PayloadKinds : StartWebhook(t, zm, pk)
  \/ WFindMeeting(t) \/ WResolve(t) \/ WIdemDb(t) \/ WIdemDrive(t)
  \/ WDownload(t) \/ WAcquire(t) \/ WUploadDone(t) \/ WPost(t)
  \/ WPersist(t) \/ WUpdate(t) \/ WRelease(t)

(* ====================================================================== *)
(* manualRetry (recordings.controller.ts 385-904)                           *)
(* ====================================================================== *)
Min(a, b) == IF a < b THEN a ELSE b

\* dto.limit ?? 5
DefaultLimit == 5
LimitOf(dto) == IF dto.limit = 0 THEN DefaultLimit ELSE dto.limit

\* the selectors and flags of the requests (exactly one selector, as the controller checks)
RetryFlags ==
  { <<FALSE, FALSE, FALSE, FALSE>>,    \* plain
    <<TRUE, FALSE, FALSE, FALSE>>,     \* republish
    <<FALSE, TRUE, FALSE, FALSE>>,     \* forceRedownload
    <<TRUE, FALSE, TRUE, FALSE>>,      \* republish + forceRepost
    <<FALSE, FALSE, FALSE, TRUE>> }    \* dryRun

RetrySelectors ==
  { <<"zoomRecordingId", "r1">>, <<"meetingId", "1">>,
    <<"zoomMeetingId", "m1">>, <<"zoomMeetingId", "m2">> }

RetryRequests ==
  { Dto(s[1], s[2], f[1], f[2], f[3], f[4], 0, 0) : s \in RetrySelectors, f \in RetryFlags }

\* the internal id a meetingId selector names
MeetingIdOf(val) == IF val = "1" THEN 1 ELSE 2

\* lines 469-477, 487-495, 517-525: a target built from a recording and its meeting
TargetOfRec(zr, rec, m) ==
  Target(zr, rec, m, m.id, m.zoomMeetingId, m.courseIdMoodle, m # NoMeeting)

\* lines 499-505, 528-534: a meeting without recordings
TargetOfMeeting(m) == Target("", NoRec, m, m.id, m.zoomMeetingId, m.courseIdMoodle, TRUE)

\* lines 543-546: a meeting known to the provider only
TargetOfZoom(zm) == Target("", NoRec, NoMeeting, 0, zm, 0, TRUE)

\* line 398: target.zoomRecordingId || target.meetingId || 'unknown'
GuardKey(tg) ==
  IF tg.zoomRecordingId # "" THEN tg.zoomRecordingId
  ELSE IF tg.meetingId # 0 THEN "meeting-" \o ToString(tg.meetingId)
  ELSE "unknown"

\* line 577 without the slice
SliceNone(targets, limit) == targets

\* line 577: targets.slice(0, limit)
Slice(targets, limit) == SubSeq(targets, 1, Min(limit, Len(targets)))

\* resolveRetryTargets, second query of each branch
TargetsOf(dto, first) ==
  IF dto.sel = "zoomRecordingId"
    THEN LET rec == first.recording
             m == IF rec # NoRec /\ rec.meetingId # 0 THEN MeetingById(rec.meetingId) ELSE NoMeeting
         IN << TargetOfRec(dto.val, rec, m) >>
    ELSE LET m == first.meeting IN
         IF m = NoMeeting THEN << TargetOfZoom(dto.val) >>
         ELSE LET recs == RecsOfMeeting(m.id) IN
              IF Len(recs) > 0
                THEN [i \in 1..Len(recs) |-> TargetOfRec(recs[i].zoomRecordingId, recs[i], m)]
                ELSE << TargetOfMeeting(m) >>

\* lines 673-677 with the republish test left out
DetermineRetryModeFull(tg, dto) == "full"

\* determineRetryMode, lines 673-677
DetermineRetryMode(tg, dto) ==
  IF dto.forceRedownload THEN "full"
  ELSE IF dto.republish /\ tg.recording.driveUrl # 0 THEN "republish"
  ELSE "full"

Settled(mode, status, reason, tg, course) ==
  [pc |-> "r_settled", res |-> RetryResult(mode, status, reason, tg.zoomRecordingId), course |-> course]

Goes(p, course) == [pc |-> p, res |-> NoResult, course |-> course]

\* executeRepublishMode up to its first await, lines 680-694
EnterRepublish(tg, course) ==
  IF tg.recording.driveUrl = 0
    THEN Settled("republish", "failed", "no-drive-url-found", tg, course)
    ELSE Goes("r_republish", course)

\* processRetryTarget once the course is known, lines 617-651
AfterCourse(tg, dto, course) ==
  IF course = 0 THEN Settled("skipped", "failed", "no-course-resolved", tg, course)
  ELSE IF tg.recording # NoRec /\ tg.recording.driveUrl # 0
          /\ ~dto.forceRedownload /\ ~dto.forceRepost
    THEN IF dto.republish THEN EnterRepublish(tg, course)
         ELSE Settled("skipped", "skipped", "already-completed", tg, course)
  ELSE IF DetermineRetryMode(tg, dto) = "republish" THEN EnterRepublish(tg, course)
  ELSE Goes("r_full", course)

\* processRetryTarget after the prelude, lines 595-615
Dispatch(tg, dto) ==
  IF dto.dryRun THEN Settled("skipped", "skipped", "dry-run", tg, 0)
  ELSE LET course == IF dto.overrideCourseIdMoodle # 0
                       THEN dto.overrideCourseIdMoodle ELSE tg.courseIdMoodle
       IN IF course = 0 /\ tg.hasTopic THEN Goes("r_resolve", 0)
          ELSE AfterCourse(tg, dto, course)

\* processRetryTarget up to its first await, lines 580-594
EnterTarget(tg, dto) ==
  IF tg.meeting = NoMeeting /\ tg.zoomMeetingId # "" /\ tg.hasTopic
    THEN Goes("r_prelude", 0)
    ELSE Dispatch(tg, dto)

\* lines 397-410: the targets from index i on whose key is in the guard are skipped
RECURSIVE NextFree(_, _, _)
NextFree(targets, i, guard) ==
  IF i > Len(targets) THEN i
  ELSE IF GuardKey(targets[i]) \in guard THEN NextFree(targets, i + 1, guard)
  ELSE i

SkippedResults(targets, i, j) ==
  [k \in 1..(j - i) |->
     RetryResult("skipped", "skipped", "already-in-progress", targets[i + k - 1].zoomRecordingId)]

\* the for loop of manualRetry from target l.idx on, up to the next await: skips, then
\* either the return of the results or the start of a target with its guard set
Advance(t, l, guard) ==
  LET j == NextFree(l.targets, l.idx, guard)
      results == l.results \o SkippedResults(l.targets, l.idx, j)
  IN IF j > Len(l.targets)
       THEN /\ pc' = SetPc(t, "done")
            /\ loc' = SetLoc(t, [LocInit EXCEPT !.results = results, !.targets = l.targets])
            /\ retryGuard' = guard
       ELSE LET tg == l.targets[j]
                d == EnterTarget(tg, op[t].dto)
            IN /\ pc' = SetPc(t, d.pc)
               /\ loc' = SetLoc(t, [l EXCEPT !.idx = j, !.results = results, !.tgt = tg,
                                             !.key = GuardKey(tg), !.res = d.res,
                                             !.course = d.course, !.zr = "", !.path = "",
                                             !.link = 0, !.upload = NoUpload, !.localSize = 0])
               /\ retryGuard' = guard \cup {GuardKey(tg)}

\* the promise of processRetryTarget resolves with a result
Settle(t, l, mode, status, reason) ==
  /\ pc' = SetPc(t, "r_settled")
  /\ loc' = SetLoc(t, [l EXCEPT !.res = RetryResult(mode, status, reason, l.tgt.zoomRecordingId)])

Continue(t, l, d) ==
  /\ pc' = SetPc(t, d.pc)
  /\ loc' = SetLoc(t, [l EXCEPT !.res = d.res, !.course = d.course])

\* lines 385-393 and the first query of resolveRetryTargets (460, 482, 512)
StartRetry(t, dto) ==
  /\ Arrives(t)
  /\ op' = [op EXCEPT ![t] = Op("retry", "", "", dto)]
  /\ fx' = [fx EXCEPT ![t] = NoFx]
  /\ pc' = SetPc(t, "r_targets")
  /\ loc' = SetLoc(t, [LocInit EXCEPT !.tgt =
        IF dto.sel = "zoomRecordingId"
          THEN [NoTarget EXCEPT !.recording = RecByZoomRecordingId(dto.val)]
        ELSE IF dto.sel = "meetingId"
          THEN [NoTarget EXCEPT !.meeting = MeetingById(MeetingIdOf(dto.val))]
        ELSE [NoTarget EXCEPT !.meeting = MeetingByZoomId(dto.val)]])
  /\ UNCHANGED <<dbVars, drive, posts, inFlightMeetings, retryGuard, firstDone,
                 fileLocks, active, semOnly, lockOnly, ctlVars>>

\* the rest of resolveRetryTargets (466, 484, 514, 541, 577) and the loop up to its await
RTargets(t) ==
  /\ pc[t] = "r_targets"
  /\ LET dto == op[t].dto
         targets == IF dto.sel = "meetingId" /\ loc[t].tgt.meeting = NoMeeting
                      THEN <<>>
                      ELSE Slice(TargetsOf(dto, loc[t].tgt), LimitOf(dto))
     IN Advance(t, [loc[t] EXCEPT !.targets = targets, !.idx = 1, !.tgt = NoTarget], retryGuard)
  /\ UNCHANGED <<dbVars, drive, posts, inFlightMeetings, op, fx, firstDone,
                 fileLocks, active, semOnly, lockOnly, ctlVars>>

\* lines 585-594: resolveExternalMeetingFromTopic for a meeting that has no row;
\* then the dry-run return or the course determination
RPrelude(t) ==
  /\ pc[t] = "r_prelude"
  /\ \E course \in {0, TopicCourse(loc[t].tgt.zoomMeetingId)} :
       IF course = 0
         THEN /\ UNCHANGED meetings
              /\ Continue(t, loc[t], Dispatch(loc[t].tgt, op[t].dto))
         ELSE LET created == NewMeeting(loc[t].tgt.zoomMeetingId, course, "scheduled")
                  tg == [loc[t].tgt EXCEPT !.meeting = created, !.meetingId = created.id,
                                           !.courseIdMoodle = created.courseIdMoodle]
              IN /\ meetings' = Append(meetings, created)
                 /\ Continue(t, [loc[t] EXCEPT !.tgt = tg], Dispatch(tg, op[t].dto))
  /\ UNCHANGED <<recordings, licenses, drive, posts, inFlightMeetings, retryGuard, op, fx,
                 firstDone, fileLocks, active, semOnly, lockOnly, ctlVars>>

\* lines 607-615: the course is still unknown and the target has a topic
RResolve(t) ==
  /\ pc[t] = "r_resolve"
  /\ \E course \in {0, TopicCourse(loc[t].tgt.zoomMeetingId)} :
       IF course = 0
         THEN /\ UNCHANGED meetings
              /\ Continue(t, loc[t], AfterCourse(loc[t].tgt, op[t].dto, 0))
         ELSE LET resolved == NewMeeting(loc[t].tgt.zoomMeetingId, course, "scheduled")
                  tg == [loc[t].tgt EXCEPT !.meeting = resolved, !.meetingId = resolved.id]
              IN /\ meetings' = Append(meetings, resolved)
                 /\ Continue(t, [loc[t] EXCEPT !.tgt = tg], AfterCourse(tg, op[t].dto, course))
  /\ UNCHANGED <<recordings, licenses, drive, posts, inFlightMeetings, retryGuard, op, fx,
                 firstDone, fileLocks, active, semOnly, lockOnly, ctlVars>>

\* executeRepublishMode, lines 694-703: forum id and discussion
RRepublish(t) ==
  /\ pc[t] = "r_republish"
  /\ \E ok \in BOOLEAN :
       IF ok
         THEN /\ posts' = [posts EXCEPT ![loc[t].tgt.zoomRecordingId] = @ + 1]
              /\ fx' = Bump(t, "posts")
              /\ pc' = SetPc(t, "r_track")
              /\ UNCHANGED loc
         ELSE /\ Settle(t, loc[t], "republish", "failed", "moodle-error")
              /\ UNCHANGED <<posts, fx>>
  /\ UNCHANGED <<dbVars, drive, inFlightMeetings, retryGuard, op, firstDone,
                 fileLocks, active, semOnly, lockOnly, ctlVars>>

\* line 708: (target.recording.retryCount || 0) + 1
RetryCountAfter(rec) == rec.retryCount + 1

\* lines 706-711: recRepo.update(id, { retryCount, lastRetryAt }) from the snapshot
RTrack(t) ==
  /\ pc[t] = "r_track"
  /\ recordings' = [recordings EXCEPT ![loc[t].tgt.recording.id] =
                       [@ EXCEPT !.retryCount = RetryCountAfter(loc[t].tgt.recording)]]
  /\ Settle(t, loc[t], "republish", "ok", "republished-successfully")
  /\ UNCHANGED <<meetings, licenses, drive, posts, inFlightMeetings, retryGuard, op, fx,
                 firstDone, fileLocks, active, semOnly, lockOnly, ctlVars>>

\* executeFullMode, line 742-743: meeting = target.meeting || target
FullZoomMeetingId(tg) ==
  IF tg.meeting # NoMeeting THEN tg.meeting.zoomMeetingId ELSE tg.zoomMeetingId

FullMeetingId(tg) == IF tg.meeting # NoMeeting THEN tg.meeting.id ELSE 0

\* lines 739-773: the recording of the provider, the MP4 and the download path
RFullStart(t) ==
  /\ pc[t] = "r_full"
  /\ LET zm == FullZoomMeetingId(loc[t].tgt)
         mp4 == IF zm = "" THEN NoFile ELSE SelectFullMp4(ZoomFiles(zm))
     IN \E found \in BOOLEAN :
          IF zm = "" \/ ~found \/ mp4 = NoFile
            THEN Settle(t, loc[t], "full", "failed", "full-mode-error")
            ELSE /\ pc' = SetPc(t, "r_lock")
                 /\ loc' = SetLoc(t, [loc[t] EXCEPT !.zr = mp4.id, !.localSize = mp4.file_size,
                                                    !.path = FullPath(zm, mp4.id)])
  /\ UNCHANGED <<dbVars, drive, posts, inFlightMeetings, retryGuard, op, fx, firstDone,
                 fileLocks, active, semOnly, lockOnly, ctlVars>>

\* line 775: withFileLock(downloadPath): waits while the path is in the map
RLock(t) ==
  /\ pc[t] = "r_lock"
  /\ fileLocks[loc[t].path] = NoOwner
  /\ fileLocks' = [fileLocks EXCEPT ![loc[t].path] = t]
  /\ pc' = SetPc(t, "r_download")
  /\ UNCHANGED <<dbVars, drive, posts, inFlightMeetings, retryGuard, op, loc, fx, firstDone,
                 active, semOnly, lockOnly, ctlVars>>

\* an error inside the function of withFileLock: the finally releases the path, the
\* catch of executeFullMode turns the error into a failed result
FullFails(t) ==
  /\ fileLocks' = LocksAfter(loc[t].path, "failed")
  /\ Settle(t, loc[t], "full", "failed", "full-mode-error")

\* lines 778-799: one download, its validation, the Drive folders
RDownload(t) ==
  /\ pc[t] = "r_download"
  /\ fx' = Bump(t, "downloads")
  /\ \E ok \in BOOLEAN :
       IF ok
         THEN /\ pc' = SetPc(t, "r_acquire")
              /\ UNCHANGED <<loc, fileLocks>>
         ELSE FullFails(t)
  /\ UNCHANGED <<dbVars, drive, posts, inFlightMeetings, retryGuard, op, firstDone,
                 active, semOnly, lockOnly, ctlVars>>

\* line 802: uploadSemaphore.run -> acquire()
RAcquire(t) ==
  /\ pc[t] = "r_acquire"
  /\ active < SemMax
  /\ active' = active + 1
  /\ pc' = SetPc(t, "r_uploading")
  /\ UNCHANGED <<dbVars, drive, posts, inFlightMeetings, retryGuard, op, loc, fx, firstDone,
                 fileLocks, semOnly, lockOnly, ctlVars>>

\* lines 802-824: uploadFile settles, the slot is released, the result is verified once
RUploadDone(t) ==
  /\ pc[t] = "r_uploading"
  /\ fx' = Bump(t, "uploads")
  /\ \E res \in UploadOutcomes(loc[t].localSize) :
       /\ active' = ActiveAfter
       /\ drive' = IF res.created
                     THEN Append(drive, [zoomRecordingId |-> loc[t].zr, by |-> "full"])
                     ELSE drive
       /\ IF res.created /\ UploadVerified(res, LocalMd5, loc[t].localSize)
            THEN /\ pc' = SetPc(t, "r_post")
                 /\ loc' = SetLoc(t, [loc[t] EXCEPT !.upload = res, !.link = Len(drive) + 1])
                 /\ UNCHANGED fileLocks
            ELSE FullFails(t)
  /\ UNCHANGED <<dbVars, posts, inFlightMeetings, retryGuard, op, firstDone, semOnly, lockOnly, ctlVars>>

\* lines 826-853: post-upload probe and preview wait (best effort), forum id, discussion
RPost(t) ==
  /\ pc[t] = "r_post"
  /\ \E ok \in BOOLEAN :
       IF ok
         THEN /\ posts' = [posts EXCEPT ![loc[t].zr] = @ + 1]
              /\ fx' = Bump(t, "posts")
              /\ pc' = SetPc(t, "r_save")
              /\ UNCHANGED <<loc, fileLocks>>
         ELSE /\ FullFails(t)
              /\ UNCHANGED <<posts, fx>>
  /\ UNCHANGED <<dbVars, drive, inFlightMeetings, retryGuard, op, firstDone,
                 active, semOnly, lockOnly, ctlVars>>

\* lines 855-890: a new row when the target has no recording, otherwise the snapshot of
\* the target's row with the new driveUrl; a row needs a meeting
RSave(t) ==
  /\ pc[t] = "r_save"
  /\ LET tg == loc[t].tgt IN
       IF tg.recording = NoRec
         THEN IF FullMeetingId(tg) = 0
                THEN /\ FullFails(t)
                     /\ UNCHANGED <<recordings, fx>>
                ELSE /\ recordings' = Append(recordings,
                          RecRow(Len(recordings) + 1, FullMeetingId(tg), loc[t].zr, loc[t].link))
                     /\ fx' = Bump(t, "recInserts")
                     /\ fileLocks' = LocksAfter(loc[t].path, "ok")
                     /\ Settle(t, loc[t], "full", "ok", "full-processing-completed")
         ELSE /\ recordings' = [recordings EXCEPT ![tg.recording.id] =
                                  [tg.recording EXCEPT !.driveUrl = loc[t].link]]
              /\ fileLocks' = LocksAfter(loc[t].path, "ok")
              /\ Settle(t, loc[t], "full", "ok", "full-processing-completed")
              /\ UNCHANGED fx
  /\ UNCHANGED <<meetings, licenses, drive, posts, inFlightMeetings, retryGuard, op,
                 firstDone, active, semOnly, lockOnly, ctlVars>>

\* retryGuard.delete(guardKey) of the finally
GuardAfter(key) == retryGuard \ {key}

\* lines 417-424: the awaited promise resolved: push, finally delete, next target
RFinish(t) ==
  /\ pc[t] = "r_settled"
  /\ Advance(t, [loc[t] EXCEPT !.results = Append(@, loc[t].res), !.idx = @ + 1],
             GuardAfter(loc[t].key))
  /\ UNCHANGED <<dbVars, drive, posts, inFlightMeetings, op, fx, firstDone,
                 fileLocks, active, semOnly, lockOnly, ctlVars>>

Retry(t) ==
  \/ \E dto \in RetryRequests : StartRetry(t, dto)
  \/ RTargets(t) \/ RPrelude(t) \/ RResolve(t)
  \/ RRepublish(t) \/ RTrack(t)
  \/ RFullStart(t) \/ RLock(t) \/ RDownload(t) \/ RAcquire(t) \/ RUploadDone(t)
  \/ RPost(t) \/ RSave(t) \/ RFinish(t)

(* ====================================================================== *)
(* ZoomSyncService.processSingleZoomRecording (zoom-sync.service.ts 113-222) *)
(* ====================================================================== *)
\* lines 189-191: the files that get a placeholder row
IsSyncFile(f) ==
  f.file_type = "MP4" /\ f.status = "completed"
    /\ f.recording_type = "shared_screen_with_speaker_view"

SyncFiles(zm) == SelectSeq(ZoomFiles(zm), IsSyncFile)

\* lines 117-122: meetingRepository.findOne
StartSync(t, zm) ==
  /\ Arrives(t)
  /\ op' = [op EXCEPT ![t] = Op("sync", zm, "", NoDto)]
  /\ fx' = [fx EXCEPT ![t] = NoFx]
  /\ pc' = SetPc(t, "s_meeting")
  /\ loc' = SetLoc(t, [LocInit EXCEPT !.meeting = MeetingByZoomId(zm)])
  /\ UNCHANGED <<dbVars, drive, posts, inFlightMeetings, retryGuard, firstDone,
                 fileLocks, active, semOnly, lockOnly, ctlVars>>

\* the loop over the files, lines 193-221: the next findOne or the return
SyncLoop(t, l, i) ==
  IF i > Len(SyncFiles(op[t].zm))
    THEN /\ pc' = SetPc(t, "done")
         /\ loc' = SetLoc(t, [LocInit EXCEPT !.ret = Ret("synced", 0)])
    ELSE /\ pc' = SetPc(t, "s_findRec")
         /\ loc' = SetLoc(t, [l EXCEPT !.idx = i])

\* lines 138-184: the course of the topic, then the Meeting row is created (status
\* completed) or, when it has no course yet, saved from the row read before
SMeeting(t) ==
  /\ pc[t] = "s_meeting"
  /\ \E course \in {0, TopicCourse(op[t].zm)} :
       LET existing == loc[t].meeting IN
       IF existing # NoMeeting
         THEN /\ meetings' = IF existing.courseIdMoodle = 0 /\ course # 0
                               THEN [meetings EXCEPT ![existing.id] =
                                       [existing EXCEPT !.courseIdMoodle = course]]
                               ELSE meetings
              /\ SyncLoop(t, [loc[t] EXCEPT !.meeting =
                                IF existing.courseIdMoodle = 0 /\ course # 0
                                  THEN [existing EXCEPT !.courseIdMoodle = course]
                                  ELSE existing], 1)
         ELSE /\ meetings' = Append(meetings, NewMeeting(op[t].zm, course, "completed"))
              /\ SyncLoop(t, [loc[t] EXCEPT !.meeting = NewMeeting(op[t].zm, course, "completed")], 1)
  /\ UNCHANGED <<recordings, licenses, drive, posts, inFlightMeetings, retryGuard, op, fx,
                 firstDone, fileLocks, active, semOnly, lockOnly, ctlVars>>

\* lines 194-198: recordingRepository.findOne({ where: { zoomRecordingId: file.id } })
SFindRec(t) ==
  /\ pc[t] = "s_findRec"
  /\ IF RecByZoomRecordingId(SyncFiles(op[t].zm)[loc[t].idx].id) = NoRec
       THEN /\ pc' = SetPc(t, "s_saveRec")
            /\ UNCHANGED loc
       ELSE SyncLoop(t, loc[t], loc[t].idx + 1)
  /\ UNCHANGED <<dbVars, drive, posts, inFlightMeetings, retryGuard, op, fx, firstDone,
                 fileLocks, active, semOnly, lockOnly, ctlVars>>

\* lines 199-209: the placeholder row, driveUrl ''
SSaveRec(t) ==
  /\ pc[t] = "s_saveRec"
  /\ recordings' = Append(recordings,
        RecRow(Len(recordings) + 1, loc[t].meeting.id, SyncFiles(op[t].zm)[loc[t].idx].id, 0))
  /\ fx' = Bump(t, "recInserts")
  /\ SyncLoop(t, loc[t], loc[t].idx + 1)
  /\ UNCHANGED <<meetings, licenses, drive, posts, inFlightMeetings, retryGuard, op,
                 firstDone, fileLocks, active, semOnly, lockOnly, ctlVars>>

Sync(t) ==
  \/ \E zm \in ZoomMeetingIds : StartSync(t, zm)
  \/ SMeeting(t) \/ SFindRec(t) \/ SSaveRec(t)

(* ====================================================================== *)
(* ZoomWebhookController.handleWebhook (meetings/zoom.service.ts 181-255)   *)
(* ====================================================================== *)
\* createHmac('sha256', key).update(msg).digest('hex'): a keyed digest of the message,
\* equal for equal key and message only
Hmac(key, msg) == << "hmac-sha256", key, msg >>
Hex(digest) == << "hex", digest >>

WebhookSecret == "s3cr3t"      \* the secret the provider signs with
PlainTokens == {"", "abc"}     \* payload.plainToken; "" for a payload without it
Timestamps == {"t0", "t1"}     \* header x-zm-request-timestamp

Body(event, plainToken, zm, pk) ==
  [event |-> event, plainToken |-> plainToken, zm |-> zm, payload |-> pk]

\* lines 225-228: expected = `v0=${hex(hmac(secret, `v0:${timestamp}:${raw}`))}`
SignedMessage(timestamp, raw) == << "v0:", timestamp, ":", raw >>
ExpectedSignature(secret, timestamp, raw) ==
  << "v0=", Hex(Hmac(secret, SignedMessage(timestamp, raw))) >>

Request(secret, bypass, timestamp, signature, body) ==
  [secret |-> secret, bypass |-> bypass, timestamp |-> timestamp,
   signature |-> signature, body |-> body]

\* header x-zm-signature: what the provider computed over timestamp t1, or none
Signatures(body) == { ExpectedSignature(WebhookSecret, "t1", body), <<>> }

GateBodies ==
  { Body("endpoint.url_validation", tok, "", "") : tok \in PlainTokens }
    \cup { Body("meeting.started", "", "m1", "") }
    \cup { Body("recording.completed", "", "m1", "mp4") }

\* every combination of secret, bypass flag, timestamp and signature headers
GateRequests ==
  UNION { { Request(s, b, ts, sig, body) :
              s \in {"", WebhookSecret}, b \in BOOLEAN, ts \in Timestamps,
              sig \in Signatures(body) } : body \in GateBodies }

\* signed deliveries of recording.completed for every payload
PipelineRequests ==
  { Request(WebhookSecret, FALSE, "t1", ExpectedSignature(WebhookSecret, "t1", body), body) :
      body \in { Body("recording.completed", "", zm, pk) :
                   zm \in ZoomMeetingIds, pk \in PayloadKinds } }

Answer(code, status, plainToken, encryptedToken) ==
  [code |-> code, status |-> status, plainToken |-> plainToken,
   encryptedToken |-> encryptedToken]

\* @HttpCode(200) with the returned object as the body
Returns(status) == Answer(200, status, "", <<>>)

\* an exception that leaves the handler: the framework's answer
Throws == Answer(500, "Internal server error", "", <<>>)

\* line 214, with the key and the message exchanged
EncryptedTokenSwapped(secret, plainToken) == Hex(Hmac(plainToken, secret))

\* line 214: createHmac('sha256', secret).update(plainToken).digest('hex')
EncryptedToken(secret, plainToken) == Hex(Hmac(secret, plainToken))

\* lines 230-238 with every signature accepted
IsValidAlways(req) == TRUE

\* lines 225-238: the signature header equals the expected value
IsValid(req) ==
  req.signature = ExpectedSignature(req.secret, req.timestamp, req.body)

CallService == Answer(0, "dispatch", "", <<>>)

\* lines 199-254 without the call of the service: the answer, or CallService when
\* processRecordingCompleted is to be called
Gate(req) ==
  IF req.body.event = "endpoint.url_validation"
    THEN IF req.secret = "" THEN Returns("ignored")
         ELSE IF req.body.plainToken = "" THEN Returns("ignored")
         ELSE Answer(200, "", req.body.plainToken,
                     EncryptedToken(req.secret, req.body.plainToken))
  ELSE IF req.secret = "" THEN Returns("ignored")
  ELSE IF ~req.bypass /\ ~IsValid(req) THEN Returns("invalid-signature")
  ELSE IF req.body.event = "recording.completed" THEN CallService
  ELSE Returns("ignored")

\* the handler up to its return or up to the first await inside the service
HandleWebhook(t, req) ==
  IF Gate(req) = CallService
    THEN /\ ProcessRecordingCompleted(t, req.body.zm, req.body.payload)
         /\ http' = [http EXCEPT ![t] = [req |-> req, state |-> "awaiting", answer |-> NoAnswer]]
    ELSE /\ Arrives(t)
         /\ pc' = SetPc(t, "done")
         /\ op' = [op EXCEPT ![t] = Op("gate", "", "", NoDto)]
         /\ http' = [http EXCEPT ![t] = [req |-> req, state |-> "answered", answer |-> Gate(req)]]
         /\ UNCHANGED <<dbVars, drive, posts, inFlightMeetings, retryGuard, loc, fx, firstDone,
                        fileLocks, active, semOnly, lockOnly, wk, dlVars>>

\* lines 250-251: the awaited call returned, or threw
HandleReturn(t) ==
  /\ http[t].state = "awaiting"
  /\ pc[t] = "done"
  /\ http' = [http EXCEPT ![t] = [@ EXCEPT !.state = "answered",
                 !.answer = IF loc[t].ret.status = "error" THEN Throws ELSE Returns("ok")]]
  /\ UNCHANGED <<mainVars, fileLocks, active, semOnly, lockOnly, wk, dlVars>>

(* ====================================================================== *)
(* SchedulerService.wakeupPreviews (scheduler/scheduler.service.ts 21-88)   *)
(* ====================================================================== *)
MaxWakeupAttempts == 2

\* lines 35-36 with the test of the attempts left out
WakeupEligibleAny(r) == TRUE

\* lines 35-36: driveUrl IS NOT NULL (every row of the model has a driveUrl, '' for a
\* placeholder) and driveWakeupAttempts < 2
WakeupEligible(r) == r.driveWakeupAttempts < MaxWakeupAttempts

\* extractFileId: null for '' (0 in the model)
HasFileId(r) == r.driveUrl # 0

\* the loop from index i on: records without a file id are passed over (line 48)
RECURSIVE NextWithFile(_, _)
NextWithFile(recs, i) ==
  IF i > Len(recs) THEN i
  ELSE IF HasFileId(recs[i]) THEN i
  ELSE NextWithFile(recs, i + 1)

\* the job goes on with the record at index i, or ends
JobAt(recs, i) ==
  LET k == NextWithFile(recs, i) IN
  IF k > Len(recs) THEN JobInit ELSE [pc |-> "wakeup", recs |-> recs, idx |-> k]

\* lines 31-48: the query; the rows of the date window (createdAt of yesterday, last
\* wakeup before the cutoff) are any of the rows, by the clock of the run
WakeupQuery(j) ==
  /\ wk[j].pc = "idle"
  /\ \E window \in SUBSET (1..Len(recordings)) :
       LET hits == {i \in window : WakeupEligible(recordings[i])}
           Hit(r) == r.id \in hits
       IN /\ hits # {}
          /\ wk' = [wk EXCEPT ![j] = JobAt(SelectSeq(recordings, Hit), 1)]
  /\ UNCHANGED <<mainVars, fileLocks, active, semOnly, lockOnly, http, dlVars>>

\* lines 60-63: the thumbnail is there while the video is processed: attempts := 2;
\* lines 74-77 and 80-83: attempts := the attempts of the row as read by the query + 1
AttemptsAfter(rec, thumbnailOnly) ==
  IF thumbnailOnly THEN MaxWakeupAttempts ELSE rec.driveWakeupAttempts + 1

\* lines 50-84: the Drive calls for one record and the update of its row
WakeupRecord(j) ==
  /\ wk[j].pc = "wakeup"
  /\ LET rec == wk[j].recs[wk[j].idx] IN
     \E thumbnailOnly \in BOOLEAN :
       /\ recordings' = [recordings EXCEPT ![rec.id] =
                           [@ EXCEPT !.driveWakeupAttempts = AttemptsAfter(rec, thumbnailOnly)]]
       /\ wk' = [wk EXCEPT ![j] = JobAt(wk[j].recs, wk[j].idx + 1)]
  /\ UNCHANGED <<meetings, licenses, drive, posts, inFlightMeetings, retryGuard, taskVars,
                 fileLocks, active, semOnly, lockOnly, http, dlVars>>

Wakeup(j) == WakeupQuery(j) \/ WakeupRecord(j)

(* ====================================================================== *)
(* Manual retries and wakeup runs over a database that holds recordings     *)
(* ====================================================================== *)
\* the state after the webhook for m2 was processed (meeting 2 created from the topic,
\* r2 uploaded, published and saved) and the historical sync added the placeholder of r3
StoredInit ==
  /\ meetings = << MeetingRow(1, "m1", 13, "scheduled"), MeetingRow(2, "m2", 14, "completed") >>
  /\ recordings = << RecRow(1, 2, "r2", 1), RecRow(2, 2, "r3", 0) >>
  /\ licenses = {1}
  /\ drive = << [zoomRecordingId |-> "r2", by |-> "webhook"] >>
  /\ posts = [r \in RecIds |-> IF r = "r2" THEN 1 ELSE 0]
  /\ inFlightMeetings = {}
  /\ retryGuard = {}
  /\ pc = [t \in Tasks |-> "idle"]
  /\ op = [t \in Tasks |-> NoOp]
  /\ loc = [t \in Tasks |-> LocInit]
  /\ fx = [t \in Tasks |-> NoFx]
  /\ firstDone = [zm \in ZoomMeetingIds |-> IF zm = "m2" THEN 1 ELSE 0]

BatchInit == StoredInit /\ GuardInit /\ CtlInit

\* requests for all recordings of meeting 2 with republish (r2 is republished, r3 has
\* no artifact yet and takes the full pipeline), with and without limit 1
BatchRequests ==
  { Dto("meetingId", "2", TRUE, FALSE, FALSE, FALSE, 0, 0),
    Dto("meetingId", "2", TRUE, FALSE, FALSE, FALSE, 0, 1) }

\* requests for the recording r2: republish, and the full pipeline by force
RecordingRequests ==
  { Dto("zoomRecordingId", "r2", TRUE, FALSE, FALSE, FALSE, 0, 0),
    Dto("zoomRecordingId", "r2", FALSE, TRUE, FALSE, FALSE, 0, 0) }

\* the task of a manual retry that runs alone, or beside the wakeup job
WakeupRetryTask == 1

\* manualRetry after its first query, for targets whose meeting has a row and a course
RetrySteps(t) ==
  \/ RTargets(t)
  \/ RRepublish(t) \/ RTrack(t)
  \/ RFullStart(t) \/ RLock(t) \/ RDownload(t) \/ RAcquire(t) \/ RUploadDone(t)
  \/ RPost(t) \/ RSave(t) \/ RFinish(t)


\* requests by external recording id for r2 (has an artifact URL) and r3 (placeholder
\* row, no artifact URL) with every combination of republish, forceRedownload and
\* forceRepost
FlagRequests ==
  { Dto("zoomRecordingId", zr, rp, fd, fr, FALSE, 0, 0) :
      zr \in {"r2", "r3"}, rp \in BOOLEAN, fd \in BOOLEAN, fr \in BOOLEAN }
(* ====================================================================== *)
(* A crash of the process during processRecordingCompleted                  *)
(* ====================================================================== *)
\* the positions after the upload was verified: before the post (235-264), before the
\* Recording insert (267-272), before the Meeting update (275), before the release (276)
AfterUpload == {"w_post", "w_persist", "w_update", "w_release"}

MidRun(t) == pc[t] \notin {"idle", "done"}

\* the process dies while a run is past its upload: the database, the drive and the
\* forum keep their state; the sets, maps and counters of RecordingsService (lines
\* 66-75) are those of a new process; every run under way ends without a return
Crash ==
  /\ \E t \in Tasks : pc[t] \in AfterUpload
  /\ pc' = [t \in Tasks |-> IF MidRun(t) THEN "done" ELSE pc[t]]
  /\ loc' = [t \in Tasks |->
               IF MidRun(t)
                 THEN [LocInit EXCEPT !.ret = Ret("crashed", 0), !.zr = loc[t].zr,
                                      !.path = pc[t]]
                 ELSE loc[t]]
  /\ inFlightMeetings' = {}
  /\ fileLocks' = [p \in AllPaths |-> NoOwner]
  /\ active' = 0
  /\ retryGuard' = {}
  /\ UNCHANGED <<dbVars, drive, posts, op, fx, firstDone, semOnly, lockOnly, ctlVars>>


(* ---------------------------------------------------------------------- *)
(* Download of the recording file: the callback of                          *)
(* withRobustRetries('download', ...) in processRecordingCompleted, with   *)
(* warmupHead, downloadZoomRecording, handleDownloadResponse and           *)
(* validateDownloadedFile. The caller holds the file lock of the path.     *)
(* The local file is the sequence of the byte ranges <<from, to>> written  *)
(* to it, in blocks of one megabyte; <<>> is no file or an empty one,      *)
(* which every test of the code treats alike.                              *)
(* ---------------------------------------------------------------------- *)
FileBlocks == 2             \* size of the recording at the provider, in blocks
MaxRetriesDownload == 3     \* MAX_RETRIES_DOWNLOAD of the environment
MaxTokens == 2              \* access tokens the provider issues at most
MinExpectedSizeMb == 1      \* MIN_EXPECTED_SIZE_MB

Statuses == {200, 206, 401, 403, 416, 500}

RECURSIVE SizeOf(_)
SizeOf(file) == IF file = <<>> THEN 0 ELSE (file[1][2] - file[1][1]) + SizeOf(Tail(file))

\* the file holds the bytes of the recording from byte 0 on, each once and in order
Contiguous(file) ==
  file = <<>> \/ (/\ file[1][1] = 0
                  /\ \A i \in 1..(Len(file) - 1) : file[i + 1][1] = file[i][2])

\* the files a download may find: none, a partial one, the whole recording
InitialFiles == {<<>>} \cup {<< <<0, k>> >> : k \in 1..FileBlocks}

DlStarts ==
  {[DlOff EXCEPT !.pc = "d_head", !.attempt = 1, !.hasToken = tk, !.expected = e, !.file = f] :
     tk \in BOOLEAN, e \in {0, FileBlocks}, f \in InitialFiles}

DlInit == MainInit /\ GuardInit /\ ReqInit /\ dl \in DlStarts /\ zoom = ZoomInit /\ FnIdle

\* tokenForThisAttempt = attempt === 1 ? downloadToken : undefined
UseWebhookToken(d) == d.hasToken /\ d.attempt = 1

\* ZoomService.getAccessToken: the cached token while isTokenValid, else a new one
GetAccessToken(z) == IF z.valid THEN z ELSE [gen |-> z.gen + 1, valid |-> TRUE]

\* the expiry time passes, or the timer of generateAccessToken clears the token
TokenExpires ==
  /\ dl.pc \notin {"d_off", "d_done", "d_failed"}
  /\ zoom.valid /\ zoom.gen < MaxTokens
  /\ zoom' = [zoom EXCEPT !.valid = FALSE]
  /\ UNCHANGED <<mainVars, fileLocks, active, semOnly, lockOnly, http, wk, dl, fnVars>>

\* makeRequest(rangeFrom): the request as sent and the status answered.
\* token 0 is the download token of the webhook, passed in the query string.
DlReq(d, z, rangeFrom, status) ==
  [auth |-> IF UseWebhookToken(d) THEN "query" ELSE "bearer",
   token |-> IF UseWebhookToken(d) THEN 0 ELSE z.gen,
   range |-> rangeFrom, status |-> status]

LastReq(d) == d.reqs[Len(d.reqs)]

\* withRobustRetries: the attempt threw; the next attempt, or the last error rethrown
Caught(d) ==
  IF d.attempt >= MaxRetriesDownload
  THEN [d EXCEPT !.pc = "d_failed"]
  ELSE [d EXCEPT !.pc = "d_head", !.attempt = d.attempt + 1, !.reqs = <<>>, !.refreshes = 0,
                 !.html = FALSE, !.rejected416 = FALSE]

DlKeep == UNCHANGED <<mainVars, fileLocks, active, semOnly, lockOnly, http, wk, fnVars>>

\* warmupHead and the test of its content length
WarmupHead ==
  /\ dl.pc = "d_head"
  /\ zoom' = IF UseWebhookToken(dl) THEN zoom ELSE GetAccessToken(zoom)
  /\ \E ready \in BOOLEAN :
       dl' = IF ready THEN [dl EXCEPT !.pc = "d_request"] ELSE Caught(dl)
  /\ DlKeep

\* downloadZoomRecording up to the answer of the first request
DownloadZoomRecording ==
  /\ dl.pc = "d_request"
  /\ zoom' = IF UseWebhookToken(dl) THEN zoom ELSE GetAccessToken(zoom)
  /\ \E status \in Statuses :
       LET start == SizeOf(dl.file)
       IN  dl' = [dl EXCEPT !.pc = "d_auth", !.startByte = start,
                            !.flags = IF start > 0 THEN "a" ELSE "w",
                            !.reqs = <<DlReq(dl, zoom', start, status)>>]
  /\ DlKeep

AuthExpired(d) == ~UseWebhookToken(d) /\ LastReq(d).status \in {401, 403}

\* if (!useWebhookToken && [401, 403].includes(res.status)): refresh and retry
DlAuthRetry ==
  /\ dl.pc = "d_auth"
  /\ IF AuthExpired(dl)
     THEN /\ zoom' = GetAccessToken(zoom)
          /\ \E status \in Statuses :
               dl' = [dl EXCEPT !.pc = "d_range", !.refreshes = dl.refreshes + 1,
                                !.reqs = Append(dl.reqs, DlReq(dl, zoom', dl.startByte, status))]
     ELSE /\ dl' = [dl EXCEPT !.pc = "d_range"]
          /\ zoom' = zoom
  /\ DlKeep

RangeIgnoredNever(startByte, status) == FALSE

\* if (startByte > 0 && res.status === 200)
RangeIgnored(startByte, status) == startByte > 0 /\ status = 200

\* the range was ignored: the file is removed and the request sent again from byte 0
DlRangeIgnored ==
  /\ dl.pc = "d_range"
  /\ IF RangeIgnored(dl.startByte, LastReq(dl).status)
     THEN \E status \in Statuses :
            dl' = [dl EXCEPT !.pc = "d_handle", !.file = <<>>, !.startByte = 0, !.flags = "w",
                             !.restarted = TRUE,
                             !.reqs = Append(dl.reqs, DlReq(dl, zoom, 0, status))]
     ELSE dl' = [dl EXCEPT !.pc = "d_handle"]
  /\ zoom' = zoom
  /\ DlKeep

Accept416Always(expected, file) == TRUE

\* if (expectedBytes && st && st.size >= expectedBytes)
Accept416(expected, file) == expected # 0 /\ file # <<>> /\ SizeOf(file) >= expected

\* const writeFlag = status === 206 ? flags : 'w'
WriteFlag(status, flags) == IF status = 206 THEN flags ELSE "w"

\* the body of an answer: the whole recording on 200, the requested range on 206
BodyOf(req) ==
  IF req.status = 206 /\ req.range > 0
  THEN <<IF req.range < FileBlocks THEN req.range ELSE FileBlocks, FileBlocks>>
  ELSE <<0, FileBlocks>>

\* createWriteStream with the flag and pipeline, which wrote the body up to block upTo
Written(file, flag, from, upTo) ==
  LET old == IF flag = "a" THEN file ELSE <<>>
  IN  IF upTo > from THEN Append(old, <<from, upTo>>) ELSE old

HandleDownloadResponse ==
  /\ dl.pc = "d_handle"
  /\ LET req == LastReq(dl)
         status == req.status
     IN  IF status = 416
         THEN dl' = IF Accept416(dl.expected, dl.file)
                    THEN [dl EXCEPT !.pc = "d_validate"]
                    ELSE [Caught([dl EXCEPT !.file = <<>>]) EXCEPT !.rejected416 = TRUE]
         ELSE IF status < 200 \/ status >= 300
         THEN dl' = Caught(dl)
         ELSE LET flag == WriteFlag(status, dl.flags)
                  body == BodyOf(req)
              IN  \E upTo \in body[1]..body[2], html \in BOOLEAN :
                    /\ html => status = 200
                    /\ LET d == [dl EXCEPT !.file = Written(dl.file, flag, body[1], upTo),
                                           !.html = html,
                                           !.lastWrite = [flag |-> flag, status |-> status,
                                                          range |-> req.range,
                                                          before |-> SizeOf(dl.file)]]
                       IN  dl' = IF upTo < body[2] THEN Caught(d)
                                 ELSE [d EXCEPT !.pc = "d_validate"]
  /\ zoom' = zoom
  /\ DlKeep

ValidateDownloadedFile(file, html) ==
  /\ file # <<>>
  /\ SizeOf(file) >= MinExpectedSizeMb
  /\ ~html

\* the end of the callback: the file is validated, and removed if it is not valid
DlValidate ==
  /\ dl.pc = "d_validate"
  /\ dl' = IF ValidateDownloadedFile(dl.file, dl.html)
           THEN [dl EXCEPT !.pc = "d_done"]
           ELSE Caught([dl EXCEPT !.file = <<>>])
  /\ zoom' = zoom
  /\ DlKeep

(* ---------------------------------------------------------------------- *)
(* DriveService.uploadFile: the chunk loop of the resumable upload and     *)
(* withUploadRetries around each PUT. Sizes are in blocks. The endpoint    *)
(* answers a PUT with a status, with or without a Range header, or the     *)
(* request fails in the network (status 0).                                *)
(* ---------------------------------------------------------------------- *)
ChunkBlocks == 1            \* CHUNK_SIZE_MB
StuckLimit == 5             \* if (noRange308Count >= 5)

UpInit ==
  /\ MainInit /\ GuardInit /\ ReqInit /\ dl = DlOff /\ zoom = ZoomInit /\ rr = RrOff /\ fn = FnOff
  /\ up \in {[UpOff EXCEPT !.pc = "u_loop", !.total = n] : n \in 1..FileBlocks}

\* the answers of the upload endpoint to a PUT
PutAnswers ==
  {[status |-> 0, range |-> "none", k |-> 0, id |-> FALSE]}
    \cup {[status |-> s, range |-> "none", k |-> 0, id |-> FALSE] : s \in {308, 400, 429, 500}}
    \cup {[status |-> 308, range |-> "bytes", k |-> k, id |-> FALSE] : k \in 0..FileBlocks}
    \cup {[status |-> 308, range |-> "other", k |-> 0, id |-> FALSE]}
    \cup {[status |-> 200, range |-> "none", k |-> 0, id |-> b] : b \in BOOLEAN}

MinOf(a, b) == IF a < b THEN a ELSE b

UpKeep == UNCHANGED <<mainVars, fileLocks, active, semOnly, lockOnly, http, wk, dl, zoom, rr, fn>>

\* while (offset < total): end and the headers of the chunk; else the loop is left
UpChunk ==
  /\ up.pc = "u_loop"
  /\ up' = IF up.offset < up.total
           THEN [up EXCEPT !.pc = "u_put", !.i = 0,
                           !.end = MinOf(up.offset + ChunkBlocks, up.total) - 1]
           ELSE [up EXCEPT !.pc = "u_meta"]
  /\ UpKeep

ReuseStream(prev, offset, end) ==
  IF prev.start = offset /\ prev.end = end THEN prev
  ELSE [start |-> offset, end |-> end, consumed |-> FALSE]

\* fs.createReadStream(filePath, { start: offset, end }) inside the closure:
\* the stream of the attempt before is not used again
OpenStream(prev, offset, end) == [start |-> offset, end |-> end, consumed |-> FALSE]

\* the bytes a PUT sends from a stream: none once the stream was read
SentFrom(stream) == IF stream.consumed THEN 0 ELSE stream.end - stream.start + 1

\* if ([429].includes(res.status) || res.status >= 500) throw, as a failed request does
Retried(res) == res.status = 0 \/ res.status = 429 \/ res.status >= 500

\* for (let i = 0; i < maxRetries; i++): the retries are used up
RetriesUsedUp(i) == i + 1 >= MaxRetriesUpload

\* one call of the closure by withUploadRetries: the PUT and the test of its status
UpPut ==
  /\ up.pc = "u_put"
  /\ \E res \in PutAnswers :
       LET stream == OpenStream(up.stream, up.offset, up.end)
           sent == [up EXCEPT !.stream = [stream EXCEPT !.consumed = TRUE],
                              !.put = [offset |-> up.offset, end |-> up.end,
                                       length |-> up.end - up.offset + 1,
                                       sent |-> SentFrom(stream)],
                              !.res = res]
       IN  up' = IF Retried(res)
                 THEN IF RetriesUsedUp(up.i) THEN [sent EXCEPT !.pc = "u_failed"]
                      ELSE [sent EXCEPT !.i = up.i + 1]
                 ELSE [sent EXCEPT !.pc = "u_status"]
  /\ UpKeep

\* offset after a 308 with a Range header: K + 1 of bytes=0-K, else end + 1
OffsetAfter(res, end) == IF res.range = "bytes" THEN res.k + 1 ELSE end + 1

StuckNever(count) == FALSE

Stuck(count) == count >= StuckLimit

\* the status of the answer withUploadRetries returned
UpStatus ==
  /\ up.pc = "u_status"
  /\ up' = IF up.res.status = 308
           THEN IF up.res.range # "none"
                THEN [up EXCEPT !.pc = "u_loop", !.offset = OffsetAfter(up.res, up.end),
                                !.noRange308Count = 0]
                ELSE IF Stuck(up.noRange308Count + 1)
                THEN [up EXCEPT !.pc = "u_failed", !.noRange308Count = up.noRange308Count + 1]
                ELSE [up EXCEPT !.pc = "u_loop", !.noRange308Count = up.noRange308Count + 1]
           ELSE IF up.res.status >= 200 /\ up.res.status < 300
           THEN [up EXCEPT !.pc = "u_meta"]
           ELSE [up EXCEPT !.pc = "u_failed"]
  /\ UpKeep

\* if (!lastRes || !lastRes.data || !lastRes.data.id) throw
UpMeta ==
  /\ up.pc = "u_meta"
  /\ up' = [up EXCEPT !.pc = IF up.res.id THEN "u_done" ELSE "u_failed"]
  /\ UpKeep

(* ---------------------------------------------------------------------- *)
(* The retry policies: withRobustRetries with backoffWithJitter            *)
(* (RecordingsService) and the delay of withUploadRetries (DriveService).  *)
(* Math.random() is r / Grain for r in 0..Grain-1; delays are in ms.       *)
(* ---------------------------------------------------------------------- *)
Grain == 6                     \* values of Math.random() that are drawn
MaxAttemptIndex == 9           \* attempt indices 0..9 of ten attempts
InitialBackoffMs == 30000      \* INITIAL_BACKOFF_MS of RecordingsService
MaxBackoffMs == 300000         \* MAX_BACKOFF_MS
DriveInitialBackoffMs == 15000 \* INITIAL_BACKOFF_MS of DriveService.withUploadRetries
DriveJitterMs == 1000          \* Math.floor(Math.random() * 1000)

Randoms == 0..(Grain - 1)

\* Math.floor(Math.random() * n) for the random number r / Grain
RandomBelow(r, n) == (r * n) \div Grain

\* backoffWithJitter(attempt, base, max)
BackoffWithJitter(attempt, base, max, r) ==
  LET exp == MinOf(max, base * 2^attempt)
      jitter == RandomBelow(r, (exp * 2) \div 10)
  IN  MinOf(max, exp + jitter)

\* the delay of withUploadRetries before retry i + 1
UploadDelay(i, base, max, r) == MinOf(max, base * 2^i) + RandomBelow(r, DriveJitterMs)

FnKeep == UNCHANGED <<mainVars, fileLocks, active, semOnly, lockOnly, http, wk, dl, zoom, up, rr>>

BackoffInit ==
  /\ MainInit /\ GuardInit /\ ReqInit /\ dl = DlOff /\ zoom = ZoomInit /\ up = UpOff /\ rr = RrOff
  /\ fn \in {[FnOff EXCEPT !.name = n, !.arg = <<a, r>>] :
               n \in {"backoffWithJitter", "withUploadRetries"},
               a \in 0..MaxAttemptIndex, r \in Randoms}

\* withRobustRetries, line 928: the delay after a failed attempt
BackoffRobust ==
  /\ fn.name = "backoffWithJitter" /\ fn.out = <<>>
  /\ fn' = [fn EXCEPT !.out = <<BackoffWithJitter(fn.arg[1], InitialBackoffMs, MaxBackoffMs,
                                                   fn.arg[2])>>]
  /\ FnKeep

\* withUploadRetries, line 437: the delay after a failed PUT
BackoffChunk ==
  /\ fn.name = "withUploadRetries" /\ fn.out = <<>>
  /\ fn' = [fn EXCEPT !.out = <<UploadDelay(fn.arg[1], DriveInitialBackoffMs, MaxBackoffMs,
                                             fn.arg[2])>>]
  /\ FnKeep

\* const maxAttempts = label === 'download' ? MAX_RETRIES_DOWNLOAD : MAX_RETRIES_UPLOAD
MaxAttempts(label) == IF label = "download" THEN MaxRetriesDownload ELSE MaxRetriesUpload

RrInit ==
  /\ MainInit /\ GuardInit /\ ReqInit /\ dl = DlOff /\ zoom = ZoomInit /\ up = UpOff /\ fn = FnOff
  /\ rr \in {[RrOff EXCEPT !.pc = "r_call", !.label = l, !.attempt = 1] :
               l \in {"download", "upload"}}

RrKeep == UNCHANGED <<mainVars, fileLocks, active, semOnly, lockOnly, http, wk, dl, zoom, up, fn>>

LastAttemptNever(attempt, label) == FALSE

\* if (attempt === maxAttempts) break
LastAttempt(attempt, label) == attempt = MaxAttempts(label)

\* return await fn(attempt): the operation returns a value (100 + attempt here)
\* or throws an error (its number is that of the attempt)
RrCall ==
  /\ rr.pc = "r_call"
  /\ rr.attempt <= MaxAttempts(rr.label)
  /\ \E ok \in BOOLEAN :
       LET called == [rr EXCEPT !.calls = Append(rr.calls, rr.attempt)]
       IN  rr' = IF ok
                 THEN [called EXCEPT !.pc = "r_returned", !.returned = 100 + rr.attempt]
                 ELSE IF LastAttempt(rr.attempt, rr.label)
                 THEN [called EXCEPT !.pc = "r_thrown", !.lastErr = rr.attempt,
                                     !.thrown = rr.attempt]
                 ELSE [called EXCEPT !.pc = "r_sleep", !.lastErr = rr.attempt]
  /\ RrKeep

\* await this.sleep(retryIn), then the next turn of the loop
RrSleep ==
  /\ rr.pc = "r_sleep"
  /\ \E r \in Randoms :
       LET retryIn == BackoffWithJitter(rr.attempt - 1, InitialBackoffMs, MaxBackoffMs, r)
           next == rr.attempt + 1
       IN  rr' = IF next <= MaxAttempts(rr.label)
                 THEN [rr EXCEPT !.pc = "r_call", !.attempt = next,
                                 !.delays = Append(rr.delays, retryIn)]
                 ELSE [rr EXCEPT !.pc = "r_thrown", !.attempt = next, !.thrown = rr.lastErr,
                                 !.delays = Append(rr.delays, retryIn)]
  /\ RrKeep

(* ---------------------------------------------------------------------- *)
(* MoodleService.getRecordedForumId: the forum of a course that receives   *)
(* the discussions. A forum of the listing is <<id, name>>, a forum module *)
(* of the course contents <<instance, name>>.                              *)
(* ---------------------------------------------------------------------- *)
MaxForums == 2        \* forums of the listing, and forum modules of the contents, at most

ForumNames ==
  {"Clases Grabadas", " CLASES GRABADAS", "Anuncios", "Announcements", "News forum", "General"}

\* String(name).trim().toLowerCase()
TrimLower(name) ==
  CASE name = "Clases Grabadas" -> "clases grabadas"
    [] name = " CLASES GRABADAS" -> "clases grabadas"
    [] name = "Anuncios" -> "anuncios"
    [] name = "Announcements" -> "announcements"
    [] name = "News forum" -> "news forum"
    [] OTHER -> "general"

\* the listings of n forums, with the ids base + 1, base + 2, ...
ListingsFrom(base) ==
  UNION {{[i \in 1..n |-> <<base + i, names[i]>>] : names \in [1..n -> ForumNames]} :
           n \in 0..MaxForums}

IsRecorded(f) == TrimLower(f[2]) = "clases grabadas"

IsAnnouncementsNever(f) == FALSE

IsAnnouncements(f) == TrimLower(f[2]) \in {"anuncios", "announcements", "news forum"}

\* Array.prototype.find: the first element that satisfies the test, 0 for undefined
FindId(list, Test(_)) ==
  LET hits == {i \in 1..Len(list) : Test(list[i])}
  IN  IF hits = {} THEN 0 ELSE list[CHOOSE i \in hits : \A j \in hits : i <= j][1]

\* lines 61-70 and 86-93: the priorities over one list; 0 if the list is empty
PickForum(list) ==
  IF FindId(list, IsRecorded) # 0 THEN FindId(list, IsRecorded)
  ELSE IF FindId(list, IsAnnouncements) # 0 THEN FindId(list, IsAnnouncements)
  ELSE IF list # <<>> THEN list[1][1]
  ELSE 0

\* getRecordedForumId: the id returned, or the error thrown
RecordedForumId(forums, modules) ==
  IF Len(forums) > 0 THEN <<PickForum(forums), "returns">>
  ELSE IF PickForum(modules) # 0 THEN <<PickForum(modules), "returns">>
  ELSE <<0, "throws">>

ForumInit ==
  /\ MainInit /\ GuardInit /\ ReqInit /\ dl = DlOff /\ zoom = ZoomInit /\ up = UpOff /\ rr = RrOff
  /\ fn \in {[FnOff EXCEPT !.name = "getRecordedForumId", !.arg = <<forums, modules>>] :
               forums \in ListingsFrom(10), modules \in ListingsFrom(20)}

GetRecordedForumId ==
  /\ fn.name = "getRecordedForumId" /\ fn.out = <<>>
  /\ fn' = [fn EXCEPT !.out = RecordedForumId(fn.arg[1], fn.arg[2])]
  /\ FnKeep

(* ---------------------------------------------------------------------- *)
(* resolveExternalMeetingFromTopic: the candidates built from the topic    *)
(* and the strategies tried for each. A topic is the sequence of its       *)
(* words, which single blanks separate; a parenthetical and a separator    *)
(* sign are words of their own.                                            *)
(* ---------------------------------------------------------------------- *)
MaxWords == 3         \* words of a topic, the example of five words aside
MinSegment == 3       \* splitDash.length >= 3, rmSuffixUpper2.length >= 3
MaxCut == 3           \* cut <= 3
MinKept == 2          \* words.length - cut >= 2

\* the words of the topics, written without their accents: the patterns of
\* lines 334-350 look at white space, brackets, separators and A-Z only
Words == {"Matematicas", "Basicas", "(EP)", "-", "EP", "Lunes"}

ExampleTopic == <<"Matematicas", "Basicas", "(EP)", "-", "Lunes">>

Topics == UNION {[1..n -> Words] : n \in 1..MaxWords} \cup {ExampleTopic}

\* words.join(' ')
RECURSIVE Join(_)
Join(ws) ==
  IF ws = <<>> THEN ""
  ELSE IF Len(ws) = 1 THEN ws[1]
  ELSE ws[1] \o " " \o Join(Tail(ws))

IsParenthetical(w) == w = "(EP)"     \* [\(\[] ... [\)\]]
IsSeparator(w) == w = "-"            \* [-:|] and the dashes
IsUpperSuffix(w) == w = "EP"         \* [A-Z]{1,3}

\* the words before the first one that satisfies the test; all if none does
Before(ws, Test(_)) ==
  LET hits == {i \in 1..Len(ws) : Test(ws[i])}
  IN  IF hits = {} THEN ws ELSE SubSeq(ws, 1, (CHOOSE i \in hits : \A j \in hits : i <= j) - 1)

\* trimmed.replace(/\s*[\(\[].*?[\)\]]\s*$/g, ''): when the topic ends with a closing
\* bracket, the match starts at the first opening bracket of the topic
NoParens(ws) == IF IsParenthetical(ws[Len(ws)]) THEN Before(ws, IsParenthetical) ELSE ws

\* trimmed.split(/\s*[-:|]\s*/)[0]
SplitDash(ws) == Before(ws, IsSeparator)

\* trimmed.replace(/\s+[A-Z]{1,3}$/, '')
RmSuffixUpper(ws) ==
  IF Len(ws) >= 2 /\ IsUpperSuffix(ws[Len(ws)]) THEN SubSeq(ws, 1, Len(ws) - 1) ELSE ws

\* lines 332-339: the normalized variants that are pushed, in order
Variants(ws) ==
  LET trimmed == Join(ws)
      noParens == Join(NoParens(ws))
      splitDash == Join(SplitDash(ws))
      rmSuffix == Join(RmSuffixUpper(ws))
  IN  (IF noParens # "" /\ noParens # trimmed THEN <<noParens>> ELSE <<>>)
      \o (IF splitDash # "" /\ Len(splitDash) >= MinSegment /\ splitDash # trimmed
          THEN <<splitDash>> ELSE <<>>)
      \o (IF rmSuffix # "" /\ Len(rmSuffix) >= MinSegment /\ rmSuffix # trimmed
          THEN <<rmSuffix>> ELSE <<>>)

NoTruncations(ws) == <<>>

\* lines 350-356: the topic without its last cut words, for cut = 1, 2, 3
Truncations(ws) ==
  LET cuts == {c \in 1..MaxCut : Len(ws) - c >= MinKept}
  IN  [c \in 1..Cardinality(cuts) |-> Join(SubSeq(ws, 1, Len(ws) - c))]

\* the candidates in the order in which tryResolve is called for them
Candidates(ws) == <<Join(ws)>> \o Variants(ws) \o Truncations(ws)

\* tryResolve: findCourseIdByFullnameExact, findCourseIdByField fullname and
\* shortname, searchCourseIdByName
Strategies == <<"exact", "fullname", "shortname", "search">>

\* the queries of tryResolve(cand) up to the first strategy the LMS answers
RECURSIVE TryFrom(_, _, _)
TryFrom(cand, lms, s) ==
  IF s > Len(Strategies) THEN <<>>
  ELSE IF <<Strategies[s], cand>> \in lms THEN << <<Strategies[s], cand>> >>
  ELSE << <<Strategies[s], cand>> >> \o TryFrom(cand, lms, s + 1)

Found(log, lms) == log # <<>> /\ log[Len(log)] \in lms

\* the queries for the candidates from the i-th on, up to the first answer
RECURSIVE ResolveFrom(_, _, _)
ResolveFrom(cands, lms, i) ==
  IF i > Len(cands) THEN <<>>
  ELSE LET log == TryFrom(cands[i], lms, 1)
       IN  IF Found(log, lms) THEN log ELSE log \o ResolveFrom(cands, lms, i + 1)

\* the course id of the synthesized meeting (0: null is returned) and the queries made
ResolveTopic(ws, lms, default) ==
  LET log == ResolveFrom(Candidates(ws), lms, 1)
  IN  <<IF Found(log, lms) THEN TopicCourse("m2") ELSE default, log>>

\* the LMS answers no query, or one query of one strategy for one candidate
LmsFor(ws) ==
  {{}} \cup {{<<Strategies[s], Candidates(ws)[i]>>} :
               s \in 1..Len(Strategies), i \in 1..Len(Candidates(ws))}

ResolverInit ==
  /\ MainInit /\ GuardInit /\ ReqInit /\ dl = DlOff /\ zoom = ZoomInit /\ up = UpOff /\ rr = RrOff
  /\ fn \in UNION {{[FnOff EXCEPT !.name = "resolveExternalMeetingFromTopic",
                                  !.arg = <<ws, lms, default>>] :
                       lms \in LmsFor(ws), default \in {0, DefaultCourse}} : ws \in Topics}

ResolveExternalMeetingFromTopic ==
  /\ fn.name = "resolveExternalMeetingFromTopic" /\ fn.out = <<>>
  /\ fn' = [fn EXCEPT !.out = ResolveTopic(fn.arg[1], fn.arg[2], fn.arg[3])]
  /\ FnKeep
(* ====================================================================== *)
(* Specifications                                                           *)
(* ====================================================================== *)
Next == \E t \in Tasks : Webhook(t) \/ Retry(t) \/ Sync(t)

WebhookNext == \E t \in Tasks : Webhook(t)

SpecWebhook == Init /\ [][WebhookNext]_vars

Spec == Init /\ [][Next]_vars

SemNext ==
  \E c \in SemClients : SemAcquire(c) \/ SemResume(c) \/ SemRelease(c)

SpecSem == Init /\ [][SemNext]_vars

LockNext ==
  \E c \in LockClients :
    \/ \E p \in LockPaths : LockCall(c, p)
    \/ LockResume(c)
    \/ LockRelease(c)

SpecLock == Init /\ [][LockNext]_vars

\* the webhook endpoint with the pipelines it dispatches
HttpNext ==
  \E t \in Tasks :
    \/ \E req \in PipelineRequests : HandleWebhook(t, req)
    \/ HandleReturn(t)
    \/ WFindMeeting(t) \/ WResolve(t) \/ WIdemDb(t) \/ WIdemDrive(t)
    \/ WDownload(t) \/ WAcquire(t) \/ WUploadDone(t) \/ WPost(t)
    \/ WPersist(t) \/ WUpdate(t) \/ WRelease(t)

SpecHttp == Init /\ [][HttpNext]_vars

\* the admission gate of the webhook endpoint, up to the service's first await
GateNext ==
  \E t \in Tasks :
    \/ \E req \in GateRequests : HandleWebhook(t, req)
    \/ HandleReturn(t)

SpecGate == Init /\ [][GateNext]_vars

\* manual retries over the stored recordings
BatchNext ==
  \E t \in Tasks :
    \/ \E dto \in BatchRequests : StartRetry(t, dto)
    \/ RetrySteps(t)

SpecBatch == BatchInit /\ [][BatchNext]_vars

\* manual retries of one stored recording
RepublishNext ==
  \E t \in Tasks :
    \/ \E dto \in RecordingRequests : StartRetry(t, dto)
    \/ RetrySteps(t)

SpecRepublish == BatchInit /\ [][RepublishNext]_vars

\* runs of the wakeup job, overlapping and interleaved with a manual retry
WakeupNext ==
  \/ \E j \in Jobs : Wakeup(j)
  \/ \E dto \in RecordingRequests : StartRetry(WakeupRetryTask, dto)
  \/ RetrySteps(WakeupRetryTask)

SpecWakeup == BatchInit /\ [][WakeupNext]_vars

\* webhook deliveries with crashes of the process
CrashNext ==
  \/ \E t \in Tasks : Webhook(t)
  \/ Crash

SpecCrash == Init /\ [][CrashNext]_vars

\* one manual retry of a stored recording, with every combination of the flags
FlagsNext ==
  \/ \E dto \in FlagRequests : StartRetry(WakeupRetryTask, dto)
  \/ RetrySteps(WakeupRetryTask)

SpecFlags == BatchInit /\ [][FlagsNext]_vars

\* webhook deliveries for the meeting that has no row, with and without a topic, with
\* and without a default course
ResolveNext ==
  \E t \in Tasks :
    \/ \E pk \in ResolveKinds : StartWebhook(t, "m2", pk)
    \/ WFindMeeting(t) \/ WResolveDefault(t) \/ WIdemDb(t) \/ WIdemDrive(t)
    \/ WDownload(t) \/ WAcquire(t) \/ WUploadDone(t) \/ WPost(t)
    \/ WPersist(t) \/ WUpdate(t) \/ WRelease(t)

SpecResolve == Init /\ [][ResolveNext]_vars


\* the download of one recording file, with its retries
DownloadNext ==
  \/ WarmupHead
  \/ DownloadZoomRecording
  \/ DlAuthRetry
  \/ DlRangeIgnored
  \/ HandleDownloadResponse
  \/ DlValidate
  \/ TokenExpires

SpecDownload == DlInit /\ [][DownloadNext]_vars

\* the chunk loop of one resumable upload
UploadNext ==
  \/ UpChunk
  \/ UpPut
  \/ UpStatus
  \/ UpMeta

SpecUpload == UpInit /\ [][UploadNext]_vars

\* the same, where the upload takes its next step as long as it has one
SpecUploadLive == SpecUpload /\ WF_vars(UploadNext)

\* one call of withRobustRetries
RetriesNext ==
  \/ RrCall
  \/ RrSleep

SpecRetries == RrInit /\ [][RetriesNext]_vars

\* the delays of the two retry policies, for every attempt index
BackoffNext ==
  \/ BackoffRobust
  \/ BackoffChunk

SpecBackoff == BackoffInit /\ [][BackoffNext]_vars

\* getRecordedForumId for every listing and every course contents
ForumNext ==
  \/ GetRecordedForumId

SpecForum == ForumInit /\ [][ForumNext]_vars

\* resolveExternalMeetingFromTopic for every topic and every answer of the LMS
ResolverNext ==
  \/ ResolveExternalMeetingFromTopic

SpecResolver == ResolverInit /\ [][ResolverNext]_vars
(* ====================================================================== *)
(* Claims                                                                   *)
(* ====================================================================== *)
WebhookTasks == {t \in Tasks : op[t].kind = "webhook"}
RetryTasks == {t \in Tasks : op[t].kind = "retry"}
Running(t) == pc[t] \notin {"idle", "done"}
AllEnded == \A t \in Tasks : ~Running(t)

\* C1: a webhook run that starts after a run for the same payload returned done ends
\* with status done and the first run's driveUrl, uploads nothing, posts nothing and
\* inserts no row, and leaves exactly one Recording row and one artifact for the
\* recording id.
C1_IdempotentReplay ==
  \A t \in WebhookTasks :
    (pc[t] = "done" /\ loc[t].replayOf # 0 /\ loc[t].ret.status # "in-flight") =>
      /\ loc[t].ret = Ret("done", loc[t].replayOf)
      /\ fx[t].uploads = 0 /\ fx[t].posts = 0 /\ fx[t].recInserts = 0
      /\ Cardinality(RowsFor(loc[t].zr)) = 1
      /\ Cardinality(ArtifactsFor(loc[t].zr)) = 1

\* a processRecordingCompleted call by task t for a meeting id that is in the set
CallsWhileInFlight(t) ==
  /\ pc[t] = "idle"
  /\ pc'[t] # "idle"
  /\ op'[t].kind = "webhook"
  /\ op'[t].zm \in inFlightMeetings

NoEffects(t) ==
  /\ pc'[t] = "done"
  /\ fx'[t] = NoFx
  /\ UNCHANGED <<dbVars, drive, posts, inFlightMeetings, retryGuard, fileLocks, active>>

\* C2 as stated: while m is in inFlightMeetings, every further call for m returns
\* in-flight and changes nothing (no download, upload, post, database write, nor the set).
C2_AnyCallInFlight ==
  [][\A t \in Tasks :
       CallsWhileInFlight(t) => NoEffects(t) /\ loc'[t].ret.status = "in-flight"]_vars

\* C2, amended: while m is in inFlightMeetings, every further call for m changes nothing;
\* it returns in-flight when its payload lists recording files, and ignored when it
\* lists none (the empty payload is answered before the set is consulted).
C2_InFlightNoEffects ==
  [][\A t \in Tasks :
       CallsWhileInFlight(t) =>
         /\ NoEffects(t)
         /\ loc'[t].ret.status =
              IF Len(PayloadFiles(op'[t].zm, op'[t].payload)) > 0 THEN "in-flight" ELSE "ignored"]_vars

\* a duplicate delivery was answered in-flight while the first pipeline is between its
\* upload and its save
C2_Witness ==
  \E t, u \in WebhookTasks :
    /\ t # u
    /\ op[t].zm = op[u].zm
    /\ pc[t] = "done" /\ loc[t].ret.status = "in-flight"
    /\ pc[u] = "w_post"
    /\ op[u].zm \in inFlightMeetings

\* C3: the ids in inFlightMeetings are exactly the ids of the calls that added theirs
\* and have not ended: every outcome of such a call removes the id.
C3_InFlightReleased ==
  inFlightMeetings =
    {op[t].zm : t \in {u \in WebhookTasks : Running(u)}}

\* a call ended with an error after its upload attempts were exhausted, another ended
\* ignored after it had added its id, and the set is empty
C3_Witness ==
  \E t, u \in WebhookTasks :
    /\ pc[t] = "done" /\ loc[t].ret.status = "error" /\ fx[t].uploads = MaxRetriesUpload
    /\ pc[u] = "done" /\ loc[u].ret.status = "ignored" /\ op[u].payload = "audio"
    /\ inFlightMeetings = {}

\* the pipeline stages and the external meeting id they work for
InStage(t) ==
  pc[t] \in {"w_download", "w_acquire", "w_uploading", "w_post", "w_persist",
             "r_download", "r_acquire", "r_uploading", "r_post", "r_save"}

StageMeeting(t) ==
  IF op[t].kind = "webhook" THEN op[t].zm ELSE FullZoomMeetingId(loc[t].tgt)

\* C4: no two tasks are in a pipeline stage (download, upload, publish, persist) for
\* the same external meeting id at the same time, webhook or full-mode retry.
C4_StagesSerialized ==
  \A t, u \in Tasks :
    (t # u /\ InStage(t) /\ InStage(u)) => StageMeeting(t) # StageMeeting(u)

\* C5: at most one stored artifact carries a given recording-file id.
C5_OneArtifactPerRecording ==
  \A r \in RecIds : Cardinality(ArtifactsFor(r)) <= 1

\* C6: at most one Recording row carries a given recording-file id.
C6_OneRowPerRecording ==
  \A r \in RecIds : Cardinality(RowsFor(r)) <= 1

\* C7: at any time at most SemMax (3) upload calls execute inside
\* uploadSemaphore.run, for every interleaving of acquirers, waiters and releases.
C7_SemaphoreBound == Cardinality(SemRunning) <= SemMax

\* C8: for any path at most one task at a time executes the function passed to
\* withFileLock for that path, also when one unlock wakes several waiters.
C8_PathMutex == \A p \in LockPaths : Cardinality(InFn(p)) <= 1

\* a task runs fn on a path while another task, woken by the same unlock, waits again
C8_Witness ==
  \E c, d \in LockClients :
    /\ c # d
    /\ lockPath[c] = lockPath[d]
    /\ lockWokenBy[c] # NoOwner
    /\ lockWokenBy[c] = lockWokenBy[d]
    /\ lockPc[c] = "in_fn"
    /\ lockPc[d] = "waiting"
    /\ lockAwait[d] = c

\* where a task holds which guard
InLock(t) ==
  pc[t] \in {"w_download", "w_acquire", "w_uploading", "w_post", "w_persist", "w_update",
             "w_release", "r_download", "r_acquire", "r_uploading", "r_post", "r_save"}

InSlot(t) == pc[t] \in {"w_uploading", "r_uploading"}

InTarget(t) ==
  pc[t] \in {"r_prelude", "r_resolve", "r_republish", "r_track", "r_full", "r_lock",
             "r_download", "r_acquire", "r_uploading", "r_post", "r_save", "r_settled"}

\* C9: a guard is held only by a task that is inside the guarded section: the path
\* locks are those of the tasks inside withFileLock, the semaphore count is the number
\* of uploads in progress, the retryGuard keys are those of the targets in progress; a
\* target that ended with an error holds none of them, and once all tasks have ended
\* the path-lock map and retryGuard are empty and the count is 0.
C9_NoGuardLeftHeld ==
  /\ \A p \in AllPaths :
       fileLocks[p] # NoOwner => InLock(fileLocks[p]) /\ loc[fileLocks[p]].path = p
  /\ active = Cardinality({t \in Tasks : InSlot(t)})
  /\ retryGuard = {loc[t].key : t \in {u \in RetryTasks : InTarget(u)}}
  /\ \A t \in RetryTasks :
       (pc[t] = "r_settled" /\ loc[t].res.status = "failed") =>
         \A p \in AllPaths : fileLocks[p] # t
  /\ AllEnded =>
       /\ \A p \in AllPaths : fileLocks[p] = NoOwner
       /\ retryGuard = {}
       /\ active = 0

\* a full-mode target failed after its upload and a webhook pipeline failed after its
\* uploads; all tasks have ended
C9_Witness ==
  /\ AllEnded
  /\ \E t \in RetryTasks :
       /\ fx[t].uploads = 1
       /\ \E i \in 1..Len(loc[t].results) :
            loc[t].results[i].mode = "full" /\ loc[t].results[i].status = "failed"
  /\ \E u \in WebhookTasks : loc[u].ret.status = "error" /\ fx[u].uploads = MaxRetriesUpload

\* the tasks whose upload was accepted by the checks and whose pipeline goes on or
\* has reported done
UploadAccepted(t) == loc[t].upload.created

\* C10: an accepted upload has the local MD5 and a reported size within SizeTolerance
\* of the local size.
C10_VerifiedUpload ==
  \A t \in Tasks :
    UploadAccepted(t) =>
      /\ loc[t].upload.md5Checksum = LocalMd5
      /\ loc[t].upload.sizeBytes # NoSize
      /\ Abs(loc[t].upload.sizeBytes - loc[t].localSize) <= SizeTolerance

Answered(t) == http[t].state = "answered"
Invoked(t) == op[t].kind = "webhook"

\* C11: every answer of the webhook endpoint has HTTP code 200, also when the pipeline
\* it dispatched ended in an error.
C11_AlwaysOk ==
  \A t \in Tasks : Answered(t) => http[t].answer.code = 200

\* the request passes the gate as the claim words it
Admissible(r) ==
  /\ r.secret # ""
  /\ r.body.event = "recording.completed"
  /\ \/ r.signature = << "v0=", Hex(Hmac(r.secret, << "v0:", r.timestamp, ":", r.body >>)) >>
     \/ r.bypass

\* C12: processRecordingCompleted is invoked only for a request with the secret
\* configured, the event recording.completed and a signature equal to
\* "v0=" + HMAC-SHA256(secret, "v0:" + timestamp + ":" + raw body) or the bypass flag
\* on; with no secret every non-handshake request is answered ignored, bypass or not;
\* with a wrong signature and bypass off the answer is invalid-signature and nothing
\* is processed.
C12_AdmissionGate ==
  \A t \in Tasks :
    http[t].state # "none" =>
      LET r == http[t].req IN
      /\ Invoked(t) => Admissible(r)
      /\ (r.secret = "" /\ r.body.event # "endpoint.url_validation") =>
           /\ Answered(t) /\ http[t].answer = Returns("ignored")
           /\ ~Invoked(t)
      /\ (/\ r.secret # "" /\ ~r.bypass
          /\ r.body.event # "endpoint.url_validation"
          /\ r.signature # << "v0=", Hex(Hmac(r.secret, << "v0:", r.timestamp, ":", r.body >>)) >>) =>
           /\ Answered(t) /\ http[t].answer = Returns("invalid-signature")
           /\ ~Invoked(t) /\ fx[t] = NoFx /\ loc[t] = LocInit

\* a signed delivery was admitted with bypass off, and a delivery with the bypass flag
\* on was answered ignored because the secret is missing
C12_Witness ==
  \E t, u \in Tasks :
    /\ Invoked(t) /\ ~http[t].req.bypass /\ http[t].req.signature # <<>>
    /\ op[t].payload = "mp4" /\ pc[t] = "w_findMeeting"
    /\ http[u].req.secret = "" /\ http[u].req.bypass
    /\ http[u].req.body.event = "recording.completed"
    /\ Answered(u) /\ http[u].answer.status = "ignored"

\* C13: an endpoint.url_validation request that carries plainToken, with the secret
\* configured, is answered {plainToken, hex HMAC-SHA256(secret, plainToken)} whatever
\* its signature and timestamp headers and the bypass flag, and
\* processRecordingCompleted is not invoked.
C13_Handshake ==
  \A t \in Tasks :
    LET r == http[t].req IN
    (/\ http[t].state # "none"
     /\ r.body.event = "endpoint.url_validation"
     /\ r.body.plainToken # ""
     /\ r.secret # "") =>
      /\ Answered(t)
      /\ http[t].answer = [code |-> 200, status |-> "", plainToken |-> r.body.plainToken,
                           encryptedToken |-> << "hex", << "hmac-sha256", r.secret, r.body.plainToken >> >>]
      /\ ~Invoked(t)

\* the handshake was answered for a request with no signature, a stale timestamp and
\* bypass off, and for one with the bypass flag on
C13_Witness ==
  \E t, u \in Tasks :
    /\ Answered(t) /\ http[t].answer.plainToken = "abc"
    /\ http[t].req.signature = <<>> /\ http[t].req.timestamp = "t0" /\ ~http[t].req.bypass
    /\ Answered(u) /\ http[u].answer.plainToken = "abc" /\ http[u].req.bypass

\* task t takes a step
Moves(t) == pc'[t] # pc[t] \/ loc'[t] # loc[t]

DryRunTask(t) == op[t].kind = "retry" /\ op[t].dto.dryRun

\* C14: a manualRetry with dryRun=true, whatever its selector, writes no Meeting and no
\* Recording row, downloads, uploads and posts nothing, and every result it returns
\* has status skipped (reason dry-run, or already-in-progress for a busy target).
C14_DryRunNoEffects ==
  [][\A t \in Tasks :
       (DryRunTask(t) /\ Moves(t)) =>
         /\ UNCHANGED <<dbVars, drive, posts>>
         /\ fx'[t] = NoFx
         /\ pc'[t] = "done" =>
              \A i \in 1..Len(loc'[t].results) :
                /\ loc'[t].results[i].status = "skipped"
                /\ loc'[t].results[i].reason \in {"dry-run", "already-in-progress"}]_vars

\* a manualRetry by external recording id with republish=true (no forced re-download)
RepublishCall(t) ==
  /\ op[t].kind = "retry"
  /\ op[t].dto.sel = "zoomRecordingId"
  /\ op[t].dto.republish /\ ~op[t].dto.forceRedownload /\ ~op[t].dto.dryRun

\* the target of t has settled: its recording had an artifact URL and the forum
\* accepted the post
Republished(t) ==
  /\ RepublishCall(t)
  /\ pc[t] = "r_settled"
  /\ loc[t].tgt.recording.driveUrl # 0
  /\ loc[t].res.reason # "moodle-error"

\* C15: a republish of a recording that has an artifact URL creates exactly one
\* discussion post, downloads and uploads nothing, changes no artifact URL and no
\* artifact, increases the row's retryCount by exactly 1, and returns mode republish,
\* status ok, reason republished-successfully.
C15_Republish ==
  /\ [](\A t \in Tasks :
          Republished(t) =>
            /\ loc[t].res = RetryResult("republish", "ok", "republished-successfully",
                                        op[t].dto.val)
            /\ fx[t] = [NoFx EXCEPT !.posts = 1])
  /\ [][\A t \in Tasks :
          (RepublishCall(t) /\ Moves(t)) =>
            /\ UNCHANGED <<meetings, licenses, drive>>
            /\ Len(recordings') = Len(recordings)
            /\ \A i \in 1..Len(recordings) : recordings'[i].driveUrl = recordings[i].driveUrl
            /\ fx'[t].downloads = 0 /\ fx'[t].uploads = 0
            /\ Republished(t)' =>
                 recordings'[loc'[t].tgt.recording.id].retryCount
                   = recordings[loc'[t].tgt.recording.id].retryCount + 1]_vars

\* C16: manualRetry resolves at most limit targets (5 when the request names no limit)
\* and returns exactly one result per resolved target, in order; a target that fails
\* gets a failed record and the targets after it are still processed.
C16_BatchIsolation ==
  \A t \in RetryTasks :
    /\ Len(loc[t].targets) <= LimitOf(op[t].dto)
    /\ InTarget(t) => Len(loc[t].results) = loc[t].idx - 1
    /\ pc[t] = "done" =>
         /\ Len(loc[t].results) = Len(loc[t].targets)
         /\ \A i \in 1..Len(loc[t].results) :
              /\ loc[t].results[i].zoomRecordingId = loc[t].targets[i].zoomRecordingId
              /\ loc[t].results[i].status \in {"ok", "failed", "skipped"}

\* a batch of two targets ended with a failed record for the first and an ok record
\* for the second; a request with limit 1 resolved one target of the two recordings
C16_Witness ==
  \E t, u \in RetryTasks :
    /\ pc[t] = "done" /\ Len(loc[t].results) = 2
    /\ loc[t].results[1].status = "failed" /\ loc[t].results[2].status = "ok"
    /\ op[u].dto.limit = 1 /\ pc[u] = "done" /\ Len(loc[u].targets) = 1
    /\ Len(RecsOfMeeting(2)) = 2

\* the recording a retry task is processing
RetryRecording(t) ==
  IF loc[t].zr # "" THEN loc[t].zr ELSE loc[t].tgt.zoomRecordingId

\* the task is inside executeRepublishMode, or inside executeFullMode with its MP4 chosen
RetryWorking(t) ==
  pc[t] \in {"r_republish", "r_track", "r_lock", "r_download", "r_acquire", "r_uploading",
             "r_post", "r_save"}

\* C17: two manual retries are never inside processRetryTarget with the same guard key
\* (the second is skipped as already-in-progress), and while one manual retry works on
\* a recording no other manual retry works on the same recording, whichever selector
\* each used.
C17_RetryExclusion ==
  \A t, u \in RetryTasks :
    /\ (t # u /\ InTarget(t) /\ InTarget(u)) => loc[t].key # loc[u].key
    /\ (t # u /\ RetryWorking(t) /\ RetryWorking(u)) => RetryRecording(t) # RetryRecording(u)

\* a webhook call whose payload lists an MP4, made when the status of the meeting was
\* completed
ForCompleted(t) ==
  op[t].kind = "webhook" /\ op[t].payload = "mp4" /\ loc[t].afterCompleted

\* C18: a webhook that arrives when the status of its meeting is completed starts no
\* upload, and when it returns its status is done.
C18_CompletedStaysDone ==
  \A t \in Tasks :
    ForCompleted(t) =>
      /\ fx[t].uploads = 0
      /\ pc[t] # "w_uploading"
      /\ (pc[t] = "done" /\ loc[t].ret.status # "error") => loc[t].ret.status = "done"

\* the recording ids the provider lists for the meeting of a row
FilesOfMeeting(m) == {ZoomFiles(m.zoomMeetingId)[i].id : i \in 1..Len(ZoomFiles(m.zoomMeetingId))}

\* C19: a meeting whose status is completed has a Recording row, or an artifact of one
\* of its recordings exists on the drive.
C19_CompletedHasRecording ==
  \A i \in 1..Len(meetings) :
    meetings[i].status = "completed" =>
      \/ Len(RecsOfMeeting(i)) > 0
      \/ \E r \in FilesOfMeeting(meetings[i]) : ArtifactsFor(r) # {}

\* C20: driveWakeupAttempts of every Recording row is at most 2.
C20_WakeupAttemptsBound ==
  \A i \in 1..Len(recordings) : recordings[i].driveWakeupAttempts <= MaxWakeupAttempts

\* the row of r2 is at 2 attempts again after a manual retry rewrote it with a new
\* artifact, while an overlapping run that read 1 attempt is about to update it
C20_Witness ==
  /\ recordings[1].driveWakeupAttempts = MaxWakeupAttempts
  /\ recordings[1].driveUrl # 1
  /\ \E j \in Jobs :
       /\ wk[j].pc = "wakeup"
       /\ wk[j].recs[wk[j].idx].id = 1
       /\ wk[j].recs[wk[j].idx].driveWakeupAttempts = 1


\* C21: at most one Meeting row exists per external (Zoom) meeting id.
C21_OneMeetingPerZoomId ==
  \A i, j \in 1..Len(meetings) :
    meetings[i].zoomMeetingId = meetings[j].zoomMeetingId => i = j

\* the database writes of a pipeline run, by the step that makes them
InsertsRecording(t) == fx'[t].recInserts > fx[t].recInserts
UpdatesMeeting(t) == fx'[t].meetingUpdates > fx[t].meetingUpdates
ReleasesLicense(t) == fx'[t].releases > fx[t].releases

\* Recording insert, then Meeting update, then License release
WritesInOrder(t) ==
  /\ InsertsRecording(t) => fx[t].recInserts = 0 /\ fx[t].meetingUpdates = 0 /\ fx[t].releases = 0
  /\ UpdatesMeeting(t) => fx[t].meetingUpdates = 0 /\ fx[t].releases = 0
  /\ ReleasesLicense(t) => fx[t].meetingUpdates = 1 /\ fx[t].releases = 0

\* the run has a verified upload and has posted the discussion
UploadedAndPosted(t) ==
  /\ fx[t].uploads >= 1
  /\ loc[t].upload.created
  /\ UploadVerified(loc[t].upload, LocalMd5, loc[t].localSize)
  /\ fx[t].posts = 1

Writes(t) == InsertsRecording(t) \/ UpdatesMeeting(t) \/ ReleasesLicense(t)

\* the run went no further than the idempotency checks, and a discussion for its
\* recording was posted by an earlier run
ReentryAfterPost(t) == fx[t].downloads = 0 /\ loc[t].zr # "" /\ posts[loc[t].zr] >= 1

\* C22: in every run of processRecordingCompleted the database writes are in the order
\* Recording insert, Meeting update, License release, and none of them is made before
\* the upload was verified and the discussion was posted (by this run, or by an earlier
\* run when this one is an idempotent re-entry).
C22_WritesAfterUpload ==
  [][\A t \in Tasks :
       op[t].kind = "webhook" =>
         /\ WritesInOrder(t)
         /\ Writes(t) => (UploadedAndPosted(t) \/ ReentryAfterPost(t))]_vars

\* run t of a webhook with an MP4 was cut off by a crash and u is a later run of the
\* same webhook that returned done
RerunAfterCrash(t, u) ==
  /\ t < u
  /\ op[t].kind = "webhook" /\ op[t].payload = "mp4" /\ loc[t].ret.status = "crashed"
  /\ op[u] = op[t]
  /\ pc[u] = "done" /\ loc[u].ret.status = "done"

\* the meeting of the webhook is completed and holds no license
CompletedAndReleased(zm) ==
  /\ MeetingByZoomId(zm).status = "completed"
  /\ MeetingByZoomId(zm).id \notin licenses

\* C23: when a run was cut off after its upload, after the Recording insert or after
\* the Meeting update, and the same webhook is delivered again and returns done, there
\* is exactly one Recording row and exactly one artifact for the recording id, the
\* meeting is completed and its license is released.
C23_CrashTolerance ==
  \A t, u \in Tasks :
    RerunAfterCrash(t, u) =>
      /\ Cardinality(RowsFor(loc[u].zr)) = 1
      /\ Cardinality(ArtifactsFor(loc[u].zr)) = 1
      /\ CompletedAndReleased(op[u].zm)

\* the target of retry task t has settled with mode full and status ok
FullOk(t) ==
  /\ op[t].kind = "retry"
  /\ pc[t] = "r_settled"
  /\ loc[t].res.mode = "full" /\ loc[t].res.status = "ok"

\* C24: when a manual retry in full mode returns status ok, the end state is the one
\* of the webhook pipeline: a Recording row of the recording holds the new artifact URL,
\* the meeting is completed and its license is released.
C24_FullModeAsPipeline ==
  \A t \in Tasks :
    FullOk(t) =>
      /\ \E i \in RowsFor(loc[t].zr) : recordings[i].driveUrl = loc[t].link
      /\ MeetingById(FullMeetingId(loc[t].tgt)).status = "completed"
      /\ FullMeetingId(loc[t].tgt) \notin licenses

\* the request of t with republish=true in the place of forceRepost=true
RepublishInstead(dto) == [dto EXCEPT !.forceRepost = FALSE, !.republish = TRUE]

\* task t has just left the decision of processRetryTarget (lines 617-651) for its target
Decided(t) ==
  /\ op[t].kind = "retry"
  /\ \/ pc[t] \in {"r_republish", "r_full"}
     \/ /\ pc[t] = "r_settled"
        /\ loc[t].res.reason \in {"already-completed", "no-drive-url-found", "no-course-resolved"}

\* C25: a request with forceRepost=true is decided as the same request with
\* republish=true in its place: same mode, same result, same pipeline entered.
C25_ForceRepostAsRepublish ==
  \A t \in Tasks :
    (Decided(t) /\ op[t].dto.forceRepost) =>
      LET d == AfterCourse(loc[t].tgt, RepublishInstead(op[t].dto), loc[t].course)
      IN d.pc = pc[t] /\ d.res = loc[t].res

\* no flag of the request is set
NoFlag(dto) == ~dto.republish /\ ~dto.forceRedownload /\ ~dto.forceRepost

HasArtifactUrl(tg) == tg.recording # NoRec /\ tg.recording.driveUrl # 0

\* the mode the claim names for a target that is not skipped
ClaimedMode(tg, dto) ==
  IF dto.forceRedownload THEN "full"
  ELSE IF dto.republish /\ HasArtifactUrl(tg) THEN "republish"
  ELSE "full"

\* C27: for a target with a resolved course that is no dry run, a target with an
\* artifact URL and no flag set is skipped with reason already-completed and nothing is
\* downloaded, uploaded or posted; every other target enters full mode when
\* forceRedownload is set, otherwise republish mode when republish is set and the
\* recording has an artifact URL, otherwise full mode.
C27_ModeDetermination ==
  \A t \in Tasks :
    /\ (Decided(t) /\ loc[t].course # 0 /\ ~op[t].dto.dryRun) =>
         IF HasArtifactUrl(loc[t].tgt) /\ NoFlag(op[t].dto)
           THEN /\ pc[t] = "r_settled"
                /\ loc[t].res = RetryResult("skipped", "skipped", "already-completed",
                                            loc[t].tgt.zoomRecordingId)
                /\ fx[t] = NoFx
           ELSE /\ loc[t].res.reason # "already-completed"
                /\ pc[t] = IF ClaimedMode(loc[t].tgt, op[t].dto) = "full"
                             THEN "r_full" ELSE "r_republish"
    /\ (op[t].kind = "retry" /\ pc[t] = "done") =>
         \A i \in 1..Len(loc[t].results) :
           loc[t].results[i].reason = "already-completed" => fx[t] = NoFx

\* a request with republish and forceRepost for r2, which has an artifact URL, entered
\* republish mode
C27_Witness ==
  \E t \in Tasks :
    /\ Decided(t) /\ pc[t] = "r_republish"
    /\ op[t].dto.republish /\ op[t].dto.forceRepost /\ ~op[t].dto.forceRedownload
    /\ HasArtifactUrl(loc[t].tgt)

\* task t makes the step of resolveExternalMeetingFromTopic
Resolves(t) == op[t].kind = "webhook" /\ ~loc[t].resolve.ran /\ loc'[t].resolve.ran

\* the call returns ignored: no row is written, nothing is downloaded, uploaded or
\* posted, and the in-flight entry of the meeting is released
IgnoredWithoutEffects(t) ==
  /\ pc'[t] = "done" /\ loc'[t].ret = Ret("ignored", 0)
  /\ UNCHANGED <<dbVars, drive, posts>>
  /\ fx'[t] = NoFx
  /\ op[t].zm \notin inFlightMeetings'

\* a Meeting row for the external meeting id is created with the course
Synthesized(t, course) ==
  /\ meetings' = Append(meetings, MeetingRow(Len(meetings) + 1, op[t].zm, course, "scheduled"))
  /\ pc'[t] # "done"

\* C26 as stated: for a webhook whose meeting has no row, when no strategy yields a
\* course: without a default course the call returns ignored without effects and
\* releases the in-flight entry; with a default course the Meeting is synthesized with
\* the default course id.
C26_UnknownMeeting ==
  [][\A t \in Tasks :
       (Resolves(t) /\ loc'[t].resolve.found = 0) =>
         IF loc'[t].resolve.default = 0
           THEN IgnoredWithoutEffects(t)
           ELSE Synthesized(t, loc'[t].resolve.default)]_vars

\* C26 amended: the same when the payload has a topic; a payload without a topic is
\* ignored without effects also when a default course is configured.
C26_UnknownMeetingWithTopic ==
  [][\A t \in Tasks :
       (Resolves(t) /\ loc'[t].resolve.found = 0) =>
         IF loc'[t].resolve.default = 0 \/ ~loc'[t].resolve.hasTopic
           THEN IgnoredWithoutEffects(t)
           ELSE Synthesized(t, loc'[t].resolve.default)]_vars

\* one webhook without a topic was ignored although the default course is set, one
\* with a topic got its Meeting with the default course, one was ignored without default
C26_Witness ==
  \E t, u \in Tasks :
    /\ pc[t] = "done" /\ loc[t].ret.status = "ignored"
    /\ loc[t].resolve = Resolve(FALSE, 0, DefaultCourse)
    /\ loc[u].resolve = Resolve(TRUE, 0, DefaultCourse)
    /\ loc[u].meeting.courseIdMoodle = DefaultCourse
    /\ MeetingByZoomId("m2").courseIdMoodle = DefaultCourse


\* the last write appended to a file that had bytes in it
AppendedToPartial == dl.lastWrite.flag = "a" /\ dl.lastWrite.before > 0

\* a request of the attempt under way that asked for a range and was answered 200
RangeAnswered200 == \E i \in 1..Len(dl.reqs) : dl.reqs[i].range > 0 /\ dl.reqs[i].status = 200

\* C28: download resume safety. Bytes are appended to a non-empty local file
\* only when the provider answered 206 to a request that carried a Range;
\* once a request with a Range was answered 200, the attempt has removed the
\* local file and sent the request again from byte 0 and writes with flag w;
\* so the local file never holds a whole body after a partial one: its
\* ranges start at byte 0 and follow one another.
C28_ResumeSafety ==
  /\ AppendedToPartial => dl.lastWrite.status = 206 /\ dl.lastWrite.range > 0
  /\ (dl.pc = "d_handle" /\ RangeAnswered200) =>
        /\ dl.file = <<>>
        /\ dl.startByte = 0 /\ dl.flags = "w"
        /\ LastReq(dl).range = 0
  /\ Contiguous(dl.file)

\* a range answered 200 made the download restart, its body broke off, and
\* the next attempt resumed the partial file with a 206 and completed it
C28_Witness ==
  /\ dl.pc = "d_done"
  /\ dl.restarted
  /\ AppendedToPartial
  /\ dl.file = << <<0, 1>>, <<1, FileBlocks>> >>

\* handleDownloadResponse is about to handle an answer with status 416
Handles416 == dl.pc = "d_handle" /\ LastReq(dl).status = 416 /\ dl' # dl

\* the expected size is known and the local file has at least that size
AtLeastExpected == dl.expected # 0 /\ SizeOf(dl.file) >= dl.expected

\* the attempt under way has failed: the next one is due, or the retries are used up
AttemptFails ==
  \/ dl'.pc = "d_head" /\ dl'.attempt = dl.attempt + 1
  \/ dl'.pc = "d_failed" /\ dl.attempt = MaxRetriesDownload

\* the first request of the attempt that follows a rejected 416 is being sent
ResumesAfter416 == dl.rejected416 /\ dl.pc = "d_request" /\ dl' # dl

\* C29: download on status 416. If the local file has at least the expected
\* size, downloadZoomRecording returns normally and the file is kept as it
\* is; otherwise the local file is deleted and the attempt fails, and the
\* request of the next attempt carries no Range: it starts from byte 0.
C29_Status416 ==
  [][ /\ Handles416 =>
           IF AtLeastExpected
           THEN dl'.pc = "d_validate" /\ dl'.file = dl.file
           ELSE dl'.file = <<>> /\ AttemptFails
      /\ ResumesAfter416 => dl'.startByte = 0 /\ dl'.reqs[1].range = 0 ]_vars

\* a 416 met a partial file, the file was deleted, and the second attempt
\* has sent its request from byte 0
C29_Witness ==
  /\ dl.rejected416
  /\ dl.pc = "d_auth"
  /\ dl.attempt = 2
  /\ dl.startByte = 0

\* every request of the attempt under way authenticates as the attempt should:
\* the first attempt with the download token of the caller in the query
\* string, the later ones with the bearer token of the provider
AuthPerAttempt ==
  \A i \in 1..Len(dl.reqs) :
    dl.reqs[i].auth = IF dl.hasToken /\ dl.attempt = 1 THEN "query" ELSE "bearer"

\* the requests of the attempt under way that were answered 401 or 403
\* before the test of the status (the first request only)
Refused == dl.reqs # <<>> /\ dl.reqs[1].auth = "bearer" /\ dl.reqs[1].status \in {401, 403}

\* C30: download authentication. The first attempt sends the download token
\* of the caller as a query parameter and the later attempts the bearer
\* token; a bearer request answered 401 or 403 is followed, within the
\* attempt, by exactly one token refresh and exactly one more request with
\* the same range, and the token of that request is newly obtained from the
\* provider: it is not the one that was refused.
C30_ForcedRefresh ==
  /\ AuthPerAttempt
  /\ dl.refreshes <= 1
  /\ (dl.pc \in {"d_range", "d_handle"} /\ Refused) =>
        /\ dl.refreshes = 1
        /\ Len(dl.reqs) >= 2
        /\ dl.reqs[2].range = dl.reqs[1].range
        /\ dl.reqs[2].token # dl.reqs[1].token
  /\ (dl.pc \in {"d_range", "d_handle"} /\ ~Refused) => dl.refreshes = 0

(* ---------------------------------------------------------------------- *)
(* Upload, retry policy, resolution and frame properties                    *)
(* ---------------------------------------------------------------------- *)

\* the loop of uploadFile tests the status of the answer to a chunk PUT
TestsStatus(s) == up.pc = "u_status" /\ up.res.status = s /\ up' # up

\* the closure of withUploadRetries is called and the answer is one it retries
PutRetried == up.pc = "u_put" /\ up' # up /\ Retried(up'.res)

\* C31: status handling of the resumable upload on a chunk PUT. A 2xx ends
\* the chunk loop; a 308 with Range bytes=0-K sets the offset to K+1 and the
\* no-Range counter to 0; a 308 without Range leaves the offset, so that the
\* same chunk is sent again, and the fifth such answer in a row fails the
\* upload; 429 and 5xx make withUploadRetries call the PUT again with the
\* same chunk until its retries are used up; any other 4xx fails the
\* upload; a failed upload sends no further PUT.
C31_UploadStatus ==
  [][ /\ TestsStatus(200) => up'.pc = "u_meta"
      /\ (TestsStatus(308) /\ up.res.range = "bytes") =>
            up'.offset = up.res.k + 1 /\ up'.noRange308Count = 0 /\ up'.pc = "u_loop"
      /\ (TestsStatus(308) /\ up.res.range = "none") =>
            /\ up'.offset = up.offset
            /\ up'.noRange308Count = up.noRange308Count + 1
            /\ up'.pc = IF up.noRange308Count + 1 = StuckLimit THEN "u_failed" ELSE "u_loop"
      /\ (up.pc = "u_loop" /\ up' # up /\ up.offset < up.total) =>
            up'.pc = "u_put" /\ up'.offset = up.offset
      /\ PutRetried =>
            /\ up'.put.offset = up.offset /\ up'.put.end = up.end
            /\ IF up.i + 1 < MaxRetriesUpload
               THEN up'.pc = "u_put" /\ up'.i = up.i + 1 /\ up'.offset = up.offset
               ELSE up'.pc = "u_failed"
      /\ (up.pc = "u_put" /\ up' # up /\ up'.res.status = 400) => up'.pc = "u_status"
      /\ TestsStatus(400) => up'.pc = "u_failed"
      /\ up.pc \in {"u_failed", "u_done"} => up' = up ]_vars

\* five answers 308 without Range in a row have failed the upload
C31_Witness ==
  /\ up.pc = "u_failed"
  /\ up.noRange308Count = StuckLimit
  /\ up.res.status = 308 /\ up.res.range = "none"

\* C38: fresh chunk stream per PUT attempt. Every PUT of a chunk, the
\* retries after 429, 5xx or a failed request and the repeats after a 308
\* without Range among them, reads the bytes offset..end of the file anew:
\* it sends end - offset + 1 bytes, the length its Content-Range header
\* announces, and never zero bytes from a stream already read.
C38_FreshStream ==
  up.put # NoPut =>
    /\ up.put.sent = up.put.end - up.put.offset + 1
    /\ up.put.sent = up.put.length
    /\ up.put.sent > 0

\* the same chunk was sent a second time after a retried answer, in full
C38_Witness ==
  /\ up.pc = "u_put"
  /\ up.i = 1
  /\ up.put.offset = up.offset /\ up.put.end = up.end
  /\ up.put.sent = up.put.length
  /\ up.noRange308Count > 0

\* C39: the chunk loop of uploadFile terminates whatever the upload endpoint
\* answers: an upload that keeps taking its steps completes or fails after
\* finitely many PUTs, also when the endpoint keeps answering 308 with a
\* Range header that leaves the offset where it is or moves it backwards.
C39_UploadTerminates == <>(up.pc \in {"u_done", "u_failed"})

\* C32: bounded retries. withRobustRetries calls the operation at most
\* MAX_RETRIES times for its label, with the attempt numbers 1, 2, ... in
\* order; it stops at the first call that succeeds and returns the value of
\* that call; when every call fails it throws the error of the last call,
\* and it has slept between the calls only, not after the last one.
C32_BoundedRetries ==
  /\ Len(rr.calls) <= MaxAttempts(rr.label)
  /\ \A i \in 1..Len(rr.calls) : rr.calls[i] = i
  /\ rr.pc = "r_returned" =>
        /\ rr.returned = 100 + Len(rr.calls)
        /\ Len(rr.delays) = Len(rr.calls) - 1
  /\ rr.pc = "r_thrown" =>
        /\ Len(rr.calls) = MaxAttempts(rr.label)
        /\ rr.thrown = MaxAttempts(rr.label)
        /\ Len(rr.delays) = MaxAttempts(rr.label) - 1
  /\ Len(rr.delays) <= Len(rr.calls)

\* every download attempt has failed and the last error was thrown
C32_Witness ==
  /\ rr.pc = "r_thrown"
  /\ rr.label = "download"
  /\ rr.calls = [i \in 1..MaxRetriesDownload |-> i]

\* the delay min(MAX, BASE * 2^a) plus a jitter in [0, 0.2 * min(MAX, BASE * 2^a)),
\* for the defaults BASE = 30 s and MAX = 300 s
InBackoffRange(delay, a) ==
  LET exp == MinOf(MaxBackoffMs, InitialBackoffMs * 2^a)
  IN  delay >= exp /\ 5 * (delay - exp) < exp

\* C33: backoff delay. For the attempt index a (from 0) the delay of a
\* retry policy, that of withRobustRetries and that of withUploadRetries,
\* is min(MAX, BASE * 2^a) plus a jitter in [0, 0.2 * min(MAX, BASE * 2^a)),
\* with the defaults BASE = 30 s and MAX = 300 s.
C33_BackoffDelay == fn.out # <<>> => InBackoffRange(fn.out[1], fn.arg[1])

\* task t serves a webhook for the meeting zm and has selected the file zr of its payload
WebhookSelected(t, zm, zr) ==
  /\ op[t].kind = "webhook" /\ op[t].payload = "mp4" /\ op[t].zm = zm
  /\ loc[t].zr = zr /\ pc[t] \in {"w_idemDb", "w_idemDrive", "w_acquire", "w_download"}

\* task t runs a full-mode retry for the meeting zm and has selected the file zr
FullSelected(t, zm, zr) ==
  /\ op[t].kind = "retry" /\ pc[t] \in {"r_lock", "r_download"}
  /\ FullZoomMeetingId(loc[t].tgt) = zm /\ loc[t].zr = zr

\* C36: the MP4 selection is the same in the webhook pipeline and in the
\* full-mode retry: for the recording files of one meeting both entry points
\* select the same file, the completed MP4 of the most preferred recording
\* type, the larger one among equals.
C36_SameMp4Selection ==
  \A t, u \in Tasks : \A zm \in ZoomMeetingIds : \A zr1, zr2 \in RecIds :
    (WebhookSelected(t, zm, zr1) /\ FullSelected(u, zm, zr2)) => zr1 = zr2

\* the step changes the wakeup fields of a Recording row that exists before and after
WakeupFieldsChange ==
  \E i \in 1..Len(recordings) :
    i <= Len(recordings') /\ recordings'[i].driveWakeupAttempts # recordings[i].driveWakeupAttempts

\* the step changes retryCount of a Recording row that exists before and after
RetryFieldsChange ==
  \E i \in 1..Len(recordings) :
    i <= Len(recordings') /\ recordings'[i].retryCount # recordings[i].retryCount

\* the step is one of a run of the wakeup job
JobStep == \E j \in Jobs : wk'[j] # wk[j]

\* the step is the update that ends a manual republish with status ok
RepublishOkStep ==
  \E t \in Tasks : pc[t] = "r_track" /\ pc'[t] = "r_settled" /\ loc'[t].res.mode = "republish"
                   /\ loc'[t].res.status = "ok"

\* C37: the wakeup fields of a Recording are changed by the wakeup job
\* only: no step of the webhook pipeline or of a manual retry, republish or
\* full mode with its save of an existing Recording, changes them, also
\* when the retry runs beside the job; and retryCount with lastRetryAt is
\* changed by a manual republish that succeeds only.
C37_WakeupFrame ==
  [][ /\ WakeupFieldsChange => JobStep
      /\ RetryFieldsChange => RepublishOkStep ]_vars

\* C40: publish before persist. Every Recording row the webhook path has
\* created belongs to a recording for which a forum discussion was posted:
\* when a run uploads the artifact and fails before posting, a later
\* webhook for the recording does not leave a Recording row, and end in
\* done, while no discussion was ever posted.
C40_PublishBeforePersist ==
  \A i \in 1..Len(recordings) : posts[recordings[i].zoomRecordingId] > 0

\* the ids of the elements of a list that satisfy a test on their names
IdsWhere(list, names) == {list[i][1] : i \in {j \in 1..Len(list) : TrimLower(list[j][2]) \in names}}

RecordedName == {"clases grabadas"}

AnnouncementNames == {"anuncios", "announcements", "news forum"}

Resolved(ws) ==
  fn.name = "resolveExternalMeetingFromTopic" /\ fn.out # <<>> /\ fn.arg[1] = ws

\* the candidates for which the strategies were consulted, in order: each
\* consultation starts with the exact match
CandidatesTried ==
  LET first == SelectSeq(fn.out[2], LAMBDA q : q[1] = "exact")
  IN  [i \in 1..Len(first) |-> first[i][2]]

\* the strategies are consulted in the order exact match, fullname, shortname,
\* free-text search, for one candidate after the other, and the first result
\* that is not empty ends the consultation and gives the course
StrategiesInOrder ==
  LET log == fn.out[2]
  IN  /\ \A i \in 1..Len(log) :
           /\ log[i][1] = Strategies[((i - 1) % 4) + 1]
           /\ log[i][2] = CandidatesTried[((i - 1) \div 4) + 1]
      /\ \A i \in 1..(Len(log) - 1) : log[i] \notin fn.arg[2]
      /\ fn.out[1] = IF log[Len(log)] \in fn.arg[2] THEN TopicCourse("m2") ELSE fn.arg[3]

\* nothing was found: every candidate was tried with every strategy
NothingFound == fn.arg[2] = {}

\* C34 (as claimed): course resolution order. For each candidate the
\* strategies are consulted in the order exact fullname/displayname match,
\* get-by-field fullname, get-by-field shortname, free-text search, up to
\* the first result that is not empty; the candidates are the topic, then
\* its normalized variants, then its right-truncations, then the default
\* course id; and for the topic "Matematicas Basicas (EP) - Lunes" the
\* candidates tried are, in order, the topic itself,
\* "Matematicas Basicas (EP)" and "Matematicas Basicas".
C34_ResolutionOrder ==
  (fn.name = "resolveExternalMeetingFromTopic" /\ fn.out # <<>>) =>
    /\ StrategiesInOrder
    /\ CandidatesTried[1] = Join(fn.arg[1])
    /\ (Resolved(ExampleTopic) /\ NothingFound) =>
          CandidatesTried = <<"Matematicas Basicas (EP) - Lunes", "Matematicas Basicas (EP)",
                              "Matematicas Basicas">>

\* C34 (amended): the same order of strategies and of candidates, where the
\* variants are each taken from the whole topic and a candidate may be
\* tried more than once: for the topic "Matematicas Basicas (EP) - Lunes"
\* the candidates tried are the topic, "Matematicas Basicas (EP)" (left
\* segment of the split), then the truncations "Matematicas Basicas (EP) -",
\* "Matematicas Basicas (EP)" again and "Matematicas Basicas"; a trailing
\* parenthetical or a trailing suffix of capitals is dropped before the
\* truncations are tried, and truncations keep two words at least.
C34_ResolutionOrderExact ==
  (fn.name = "resolveExternalMeetingFromTopic" /\ fn.out # <<>>) =>
    /\ StrategiesInOrder
    /\ CandidatesTried[1] = Join(fn.arg[1])
    /\ (Resolved(ExampleTopic) /\ NothingFound) =>
          CandidatesTried = <<"Matematicas Basicas (EP) - Lunes", "Matematicas Basicas (EP)",
                              "Matematicas Basicas (EP) -", "Matematicas Basicas (EP)",
                              "Matematicas Basicas">>
    /\ (Resolved(<<"Matematicas", "Basicas", "(EP)">>) /\ NothingFound) =>
          CandidatesTried = <<"Matematicas Basicas (EP)", "Matematicas Basicas",
                              "Matematicas Basicas">>
    /\ (Resolved(<<"Matematicas", "Basicas", "EP">>) /\ NothingFound) =>
          CandidatesTried = <<"Matematicas Basicas EP", "Matematicas Basicas",
                              "Matematicas Basicas">>
    /\ (Resolved(<<"Matematicas", "-", "Lunes">>) /\ NothingFound) =>
          CandidatesTried = <<"Matematicas - Lunes", "Matematicas", "Matematicas -">>
    /\ (Resolved(<<"EP", "-", "Lunes">>) /\ NothingFound) =>
          CandidatesTried = <<"EP - Lunes", "EP -">>
    /\ (Resolved(<<"Matematicas", "Basicas">>) /\ NothingFound) =>
          CandidatesTried = <<"Matematicas Basicas">>
    /\ NothingFound => fn.out[1] = fn.arg[3]

\* the LMS knows the fullname "Matematicas Basicas" only: the topic of the
\* example resolves on the fifth candidate tried, by the second strategy
C34_Witness ==
  /\ Resolved(ExampleTopic)
  /\ fn.arg[2] = {<<"fullname", "Matematicas Basicas">>}
  /\ fn.out[1] = TopicCourse("m2")
  /\ Len(CandidatesTried) = 5
  /\ Len(fn.out[2]) = 18
====
